---------------------------- MODULE Spec2Model ----------------------------
(***************************************************************************)
(* A model of the uhf_rfid CPH client library: the framing codec, the TLV  *)
(* codec and the request/response dispatcher (uhf_rfid/core/dispatcher.py) *)
(* running over a byte-stream transport.                                   *)
(*                                                                         *)
(* Bytes are integers 0..255, byte strings are sequences of bytes.         *)
(* Python indices are 0-based and slices are half open; Slice translates   *)
(* them to the 1-based sequences of TLA+.                                  *)
(***************************************************************************)
EXTENDS Integers, Sequences, FiniteSets, TLC

(***************************************************************************)
(* Bounds of the model.                                                    *)
(***************************************************************************)
\* number of send_command_wait_response calls issued in one behaviour
MaxCalls == 2
\* the receive buffer takes no chunk that would make it longer than this
MaxBuffer == 24

(***************************************************************************)
(* Python helpers.                                                         *)
(***************************************************************************)
None == "None"

Min(a, b) == IF a < b THEN a ELSE b

Max(a, b) == IF a > b THEN a ELSE b

\* data[a:b]
Slice(data, a, b) == SubSeq(data, Max(a, 0) + 1, Min(b, Len(data)))

\* data[a:]
SliceFrom(data, a) == SubSeq(data, Max(a, 0) + 1, Len(data))

RECURSIVE SumBytes(_)
SumBytes(data) == IF data = <<>> THEN 0 ELSE Head(data) + SumBytes(Tail(data))

\* bytes.find(sub): the 0-based index of the first occurrence, or -1
Find(data, sub) ==
    LET hits == {i \in 0..(Len(data) - Len(sub)) : Slice(data, i, i + Len(sub)) = sub}
    IN IF hits = {} THEN -1 ELSE CHOOSE i \in hits : \A j \in hits : i <= j

(***************************************************************************)
(* uhf_rfid/protocols/cph/constants.py                                     *)
(***************************************************************************)
FRAME_HEADER == <<82, 70>>
HEADER_LENGTH == 2
FRAME_TYPE_LENGTH == 1
ADDRESS_LENGTH == 2
FRAME_CODE_LENGTH == 1
PARAM_LENGTH_FIELD_LENGTH == 2
CHECKSUM_LENGTH == 1
MIN_FRAME_LENGTH ==
    HEADER_LENGTH + FRAME_TYPE_LENGTH + ADDRESS_LENGTH +
    FRAME_CODE_LENGTH + PARAM_LENGTH_FIELD_LENGTH + CHECKSUM_LENGTH

FRAME_TYPE_COMMAND == 0
FRAME_TYPE_RESPONSE == 1
FRAME_TYPE_NOTIFICATION == 2

CMD_GET_VERSION == 64
CMD_SET_PARAMETER == 72
NOTIF_TAG_UPLOADED == 128
NOTIF_HEARTBEAT == 144

TAG_EPC == 1
TAG_USER_DATA == 2
TAG_RESERVE_DATA == 3
TAG_TID_DATA == 4
TAG_RSSI == 5
TAG_TIME == 6
TAG_STATUS == 7
TAG_OPERATION == 8
TAG_SOFTWARE_VERSION == 32
TAG_DEVICE_TYPE == 33
TAG_SINGLE_PARAMETER == 38
TAG_SINGLE_TAG == 80

STATUS_SUCCESS == 0
STATUS_PARAMETER_UNSUPPORTED == 20
STATUS_UNSUPPORTED_COMMAND == 23

\* CPH_STATUS_MESSAGES.get(status_code, "Unknown reader status code")
CPH_STATUS_MESSAGES(status_code) ==
    CASE status_code = 0 -> "SUCCESS: Command completed successfully."
      [] status_code = 20 -> "PARAMETER_UNSUPPORTED: Unsupported parameter type."
      [] status_code = 21 -> "PARAMETER_LEN_ERROR: Incorrect parameter length."
      [] status_code = 22 -> "PARAMETER_CONTEXT_ERROR: Incorrect parameter content."
      [] status_code = 23 -> "UNSUPPORTED_COMMAND: The command code is not supported by the reader."
      [] status_code = 24 -> "DEVICE_ADDRESS_ERROR: The device address in the command does not match the reader's address."
      [] status_code = 32 -> "CHECKSUM_ERROR: Frame checksum validation failed."
      [] status_code = 33 -> "UNSUPPORTED_TLV_TYPE: Internal error - Unsupported TLV type encountered during processing."
      [] status_code = 34 -> "FLASH_ERROR: Error writing parameters to flash memory."
      [] status_code = 255 -> "INTERNAL_ERROR: Unspecified internal reader error."
      [] OTHER -> "Unknown reader status code"

(***************************************************************************)
(* uhf_rfid/protocols/framing.py                                           *)
(***************************************************************************)
\* a checksum of seven bits: "& 0x7F" for "& 0xFF"
calculate_checksum_7_bits(data) ==
    LET check_sum == SumBytes(data) % 128
    IN (128 - check_sum) % 128

calculate_checksum(data) ==
    LET check_sum == SumBytes(data) % 256
    IN (256 - check_sum) % 256

\* a PackHeader that packs the two-byte fields low byte first ('<2sBHBH')
PackHeader_little_endian(frame_type, address, frame_code, param_len) ==
    FRAME_HEADER \o <<frame_type, address % 256, address \div 256, frame_code,
                      param_len % 256, param_len \div 256>>

\* struct.pack('>2sBHBH', header, frame_type, address, frame_code, param_len)
PackHeader(frame_type, address, frame_code, param_len) ==
    FRAME_HEADER \o <<frame_type, address \div 256, address % 256, frame_code,
                      param_len \div 256, param_len % 256>>

\* ok = FALSE stands for the ValueError of an out-of-range field
build_frame(frame_type, address, frame_code, parameters) ==
    IF \/ ~(0 <= frame_type /\ frame_type <= 2)
       \/ ~(0 <= address /\ address <= 65535)
       \/ ~(0 <= frame_code /\ frame_code <= 255)
       \/ ~(Len(parameters) <= 65535)
    THEN [ok |-> FALSE, data |-> <<>>]
    ELSE LET frame_without_checksum ==
                 PackHeader(frame_type, address, frame_code, Len(parameters)) \o parameters
         IN [ok |-> TRUE,
             data |-> frame_without_checksum \o <<calculate_checksum(frame_without_checksum)>>]

ParseFailure(error) ==
    [error |-> error, frame_type |-> 0, address |-> 0, frame_code |-> 0,
     declared_param_len |-> 0, parameters |-> <<>>, expected_total_length |-> 0,
     start_index |-> 0]

\* error is None on success, else the name of the exception raised
parse_frame_header(data) ==
    IF Len(data) < MIN_FRAME_LENGTH THEN ParseFailure("FrameParseError")
    ELSE
    LET start_index == Find(data, FRAME_HEADER) IN
    IF start_index = -1 THEN ParseFailure("FrameParseError")
    ELSE IF Len(data) < start_index + MIN_FRAME_LENGTH THEN ParseFailure("FrameParseError")
    ELSE
    LET frame_start_ptr == start_index
        header_end_ptr == frame_start_ptr + HEADER_LENGTH + FRAME_TYPE_LENGTH +
                          ADDRESS_LENGTH + FRAME_CODE_LENGTH + PARAM_LENGTH_FIELD_LENGTH
        hdr == Slice(data, frame_start_ptr, header_end_ptr)
        frame_type == hdr[3]
        address == hdr[4] * 256 + hdr[5]
        frame_code == hdr[6]
        declared_param_len == hdr[7] * 256 + hdr[8]
        expected_total_length ==
            header_end_ptr - frame_start_ptr + declared_param_len + CHECKSUM_LENGTH
    IN
    IF Len(data) < frame_start_ptr + expected_total_length THEN ParseFailure("FrameParseError")
    ELSE
    LET full_frame_data == Slice(data, frame_start_ptr, frame_start_ptr + expected_total_length)
        frame_content == Slice(full_frame_data, 0, Len(full_frame_data) - CHECKSUM_LENGTH)
        received_checksum == full_frame_data[Len(full_frame_data)]
        calculated_checksum == calculate_checksum(frame_content)
        param_start_ptr == header_end_ptr
        param_end_ptr == param_start_ptr + declared_param_len
    IN
    IF calculated_checksum # received_checksum THEN ParseFailure("ChecksumError")
    ELSE [error |-> None, frame_type |-> frame_type, address |-> address,
          frame_code |-> frame_code, declared_param_len |-> declared_param_len,
          parameters |-> Slice(frame_content, param_start_ptr - frame_start_ptr,
                               param_end_ptr - frame_start_ptr),
          expected_total_length |-> expected_total_length,
          start_index |-> start_index]

\* a find_and_parse_frame that deletes the frame's length and forgets the junk before it
find_and_parse_frame_frame_only(buffer) ==
    IF Len(buffer) < MIN_FRAME_LENGTH
    THEN [found |-> FALSE, frame |-> ParseFailure(None), buffer |-> buffer]
    ELSE
    LET p == parse_frame_header(buffer) IN
    IF p.error = None
    THEN [found |-> TRUE, frame |-> p,
          buffer |-> SliceFrom(buffer, p.expected_total_length)]
    ELSE
    LET start_index == Find(buffer, FRAME_HEADER) IN
    IF start_index # -1
    THEN [found |-> FALSE, frame |-> p,
          buffer |-> SliceFrom(buffer, start_index + HEADER_LENGTH)]
    ELSE [found |-> FALSE, frame |-> p, buffer |-> buffer]

\* a find_and_parse_frame that leaves the buffer as it is on every error
find_and_parse_frame_no_resync(buffer) ==
    IF Len(buffer) < MIN_FRAME_LENGTH
    THEN [found |-> FALSE, frame |-> ParseFailure(None), buffer |-> buffer]
    ELSE
    LET p == parse_frame_header(buffer) IN
    IF p.error = None
    THEN [found |-> TRUE, frame |-> p,
          buffer |-> SliceFrom(buffer, p.start_index + p.expected_total_length)]
    ELSE
    LET start_index == Find(buffer, FRAME_HEADER) IN
    IF start_index # -1
    THEN [found |-> FALSE, frame |-> p,
          buffer |-> buffer]
    ELSE [found |-> FALSE, frame |-> p, buffer |-> buffer]

\* found = FALSE stands for the None result; buffer is the bytearray afterwards
find_and_parse_frame(buffer) ==
    IF Len(buffer) < MIN_FRAME_LENGTH
    THEN [found |-> FALSE, frame |-> ParseFailure(None), buffer |-> buffer]
    ELSE
    LET p == parse_frame_header(buffer) IN
    IF p.error = None
    THEN [found |-> TRUE, frame |-> p,
          buffer |-> SliceFrom(buffer, p.start_index + p.expected_total_length)]
    ELSE
    LET start_index == Find(buffer, FRAME_HEADER) IN
    IF start_index # -1
    THEN [found |-> FALSE, frame |-> p,
          buffer |-> SliceFrom(buffer, start_index + HEADER_LENGTH)]
    ELSE [found |-> FALSE, frame |-> p, buffer |-> buffer]

(***************************************************************************)
(* uhf_rfid/protocols/cph/tlv.py                                           *)
(*                                                                         *)
(* A parsed value carries its Python type in the field kind: "int",        *)
(* "bytes", "str" (the upper-case hex digits of an EPC) or "dict".  A      *)
(* failed parse (TLVParseError) has ok = FALSE.                            *)
(***************************************************************************)
PARAM_TYPE_POWER == 1
PARAM_TYPE_BUZZER == 2
PARAM_TYPE_TAG_FILTER_TIME == 3
PARAM_TYPE_MODEM == 4

PyInt(n) == [kind |-> "int", v |-> n]

PyBytes(b) == [kind |-> "bytes", v |-> b]

PyStr(s) == [kind |-> "str", v |-> s]

PyDict(d) == [kind |-> "dict", v |-> d]

HexDigits == <<"0", "1", "2", "3", "4", "5", "6", "7", "8", "9", "A", "B", "C", "D", "E", "F">>

\* value.hex().upper()
RECURSIVE HexUpper(_)
HexUpper(value) ==
    IF value = <<>> THEN <<>>
    ELSE <<HexDigits[(Head(value) \div 16) + 1], HexDigits[(Head(value) % 16) + 1]>>
         \o HexUpper(Tail(value))

parse_tlv(data) ==
    IF Len(data) < 2
    THEN [ok |-> FALSE, tag |-> 0, length |-> 0, value |-> <<>>, consumed |-> 0]
    ELSE LET tag == data[1]
             length == data[2]
             value_end == 2 + length
         IN IF Len(data) < value_end
            THEN [ok |-> FALSE, tag |-> tag, length |-> length, value |-> <<>>, consumed |-> 0]
            ELSE [ok |-> TRUE, tag |-> tag, length |-> length,
                  value |-> Slice(data, 2, value_end), consumed |-> value_end]

parse_single_parameter_value(param_type, value_bytes) ==
    LET base == [type |-> param_type, raw_value |-> value_bytes] IN
    CASE param_type = PARAM_TYPE_POWER ->
           IF Len(value_bytes) # 1 THEN [ok |-> FALSE, v |-> PyDict(base)]
           ELSE [ok |-> TRUE,
                 v |-> PyDict(base @@ [value_raw |-> value_bytes[1],
                                       value_dbm |-> value_bytes[1]])]
      [] param_type = PARAM_TYPE_BUZZER ->
           IF Len(value_bytes) # 1 THEN [ok |-> FALSE, v |-> PyDict(base)]
           ELSE [ok |-> TRUE,
                 v |-> PyDict(base @@ [is_on |-> (value_bytes[1] # 0),
                                       setting |-> value_bytes[1]])]
      [] param_type = PARAM_TYPE_TAG_FILTER_TIME ->
           IF Len(value_bytes) # 1 THEN [ok |-> FALSE, v |-> PyDict(base)]
           ELSE [ok |-> TRUE, v |-> PyDict(base @@ [time_seconds |-> value_bytes[1]])]
      [] param_type = PARAM_TYPE_MODEM ->
           IF Len(value_bytes) # 4 THEN [ok |-> FALSE, v |-> PyDict(base)]
           ELSE [ok |-> TRUE,
                 v |-> PyDict(base @@ [mixer_gain |-> value_bytes[1],
                                       if_amp_gain |-> value_bytes[2],
                                       threshold |-> value_bytes[3] * 256 + value_bytes[4]])]
      [] OTHER -> [ok |-> TRUE, v |-> PyDict(base)]

parse_operation_tlv_value(value_bytes, declared_length) ==
    LET min_len_response == 7 IN
    IF declared_length < min_len_response
    THEN [ok |-> FALSE, v |-> PyDict([raw_value |-> value_bytes])]
    ELSE LET word_count == value_bytes[7]
             base == [raw_value |-> value_bytes,
                      password |-> Slice(value_bytes, 0, 4),
                      op_type |-> value_bytes[5],
                      membank |-> value_bytes[6],
                      word_count |-> word_count]
             expected_data_len == word_count * 2
             actual_data_len == declared_length - min_len_response
             data_bytes == SliceFrom(value_bytes, min_len_response)
         IN IF actual_data_len < expected_data_len
            THEN [ok |-> TRUE,
                  v |-> PyDict(base @@ [data |-> Slice(data_bytes, 0, expected_data_len),
                                        data_truncated |-> TRUE])]
            ELSE IF actual_data_len > expected_data_len
            THEN [ok |-> TRUE,
                  v |-> PyDict(base @@ [data |-> Slice(data_bytes, 0, expected_data_len),
                                        extra_data |-> SliceFrom(data_bytes, expected_data_len)])]
            ELSE [ok |-> TRUE, v |-> PyDict(base @@ [data |-> data_bytes])]

RECURSIVE parse_tlv_sequence(_)

\* the branch of parse_tlv_sequence that decodes one value by its tag
ParsedValue(tag, length, value) ==
    CASE tag = TAG_STATUS /\ length = 1 -> [ok |-> TRUE, v |-> PyInt(value[1])]
      [] tag = TAG_SOFTWARE_VERSION /\ length = 3 ->
           [ok |-> TRUE,
            v |-> PyDict([major |-> value[1], minor |-> value[2], revision |-> value[3]])]
      [] tag = TAG_DEVICE_TYPE /\ length = 1 -> [ok |-> TRUE, v |-> PyInt(value[1])]
      [] tag = TAG_RSSI /\ length = 1 ->
           [ok |-> TRUE, v |-> PyInt(IF value[1] >= 128 THEN value[1] - 256 ELSE value[1])]
      [] tag = TAG_TIME ->
           IF length = 7
           THEN [ok |-> TRUE,
                 v |-> PyDict([year |-> value[1] * 256 + value[2], month |-> value[3],
                               day |-> value[4], hour |-> value[5], minute |-> value[6],
                               second |-> value[7]])]
           ELSE IF length = 4
           THEN [ok |-> TRUE,
                 v |-> PyInt(((value[1] * 256 + value[2]) * 256 + value[3]) * 256 + value[4])]
           ELSE [ok |-> TRUE, v |-> PyBytes(value)]
      [] tag = TAG_SINGLE_PARAMETER ->
           IF length < 1 THEN [ok |-> FALSE, v |-> PyBytes(value)]
           ELSE parse_single_parameter_value(value[1], SliceFrom(value, 1))
      [] tag = TAG_OPERATION -> parse_operation_tlv_value(value, length)
      [] tag = TAG_SINGLE_TAG ->
           LET nested == parse_tlv_sequence(value)
           IN [ok |-> nested.ok, v |-> PyDict(nested.tlvs)]
      [] tag = TAG_EPC -> [ok |-> TRUE, v |-> PyStr(HexUpper(value))]
      [] OTHER -> [ok |-> TRUE, v |-> PyBytes(value)]

\* tlvs maps each tag to its parsed value; a later TLV of a tag replaces an earlier one
parse_tlv_sequence(data) ==
    IF data = <<>> THEN [ok |-> TRUE, tlvs |-> <<>>]
    ELSE LET t == parse_tlv(data) IN
         IF ~t.ok THEN [ok |-> FALSE, tlvs |-> <<>>]
         ELSE LET pv == ParsedValue(t.tag, t.length, t.value) IN
              IF ~pv.ok THEN [ok |-> FALSE, tlvs |-> <<>>]
              ELSE LET rest == parse_tlv_sequence(SliceFrom(data, t.consumed)) IN
                   IF ~rest.ok THEN [ok |-> FALSE, tlvs |-> <<>>]
                   ELSE [ok |-> TRUE, tlvs |-> rest.tlvs @@ (t.tag :> pv.v)]

\* ok = FALSE stands for the ValueError of a value over 255 bytes or a bad tag
build_tlv(tag, value) ==
    IF Len(value) > 255 \/ ~(0 <= tag /\ tag <= 255)
    THEN [ok |-> FALSE, data |-> <<>>]
    ELSE [ok |-> TRUE, data |-> <<tag, Len(value)>> \o value]

(***************************************************************************)
(* uhf_rfid/protocols/cph/protocol.py                                      *)
(***************************************************************************)
encode_command(command_code, address, params_data) ==
    build_frame(FRAME_TYPE_COMMAND, address, command_code, params_data)

\* ok = FALSE stands for the ProtocolError raised on a TLV that does not parse
parse_parameters(command_code, frame_type, params_bytes) ==
    IF params_bytes = <<>> THEN [ok |-> TRUE, tlvs |-> <<>>]
    ELSE parse_tlv_sequence(params_bytes)

(***************************************************************************)
(* uhf_rfid/protocols/cph/commands_params.py                               *)
(***************************************************************************)
\* value is an int; ok = FALSE stands for the ValueError of a value out of range,
\* of a modem setting that is no 4 bytes and of an unsupported parameter type
encode_set_single_param_request(param_type, value) ==
    IF param_type = PARAM_TYPE_POWER
    THEN IF ~(0 <= value /\ value <= 33)
         THEN [ok |-> FALSE, data |-> <<>>]
         ELSE build_tlv(TAG_SINGLE_PARAMETER, <<param_type, value>>)
    ELSE IF param_type = PARAM_TYPE_BUZZER
    THEN build_tlv(TAG_SINGLE_PARAMETER, <<param_type, IF value # 0 THEN 1 ELSE 0>>)
    ELSE IF param_type = PARAM_TYPE_TAG_FILTER_TIME
    THEN IF ~(0 <= value /\ value <= 255)
         THEN [ok |-> FALSE, data |-> <<>>]
         ELSE build_tlv(TAG_SINGLE_PARAMETER, <<param_type, value>>)
    ELSE [ok |-> FALSE, data |-> <<>>]

\* CPHProtocol.encode_set_power_request
encode_set_power_request(power_dbm) ==
    encode_set_single_param_request(PARAM_TYPE_POWER, power_dbm)

(***************************************************************************)
(* uhf_rfid/core/exceptions.py                                             *)
(*                                                                         *)
(* An exception is a record of its class, its status_code (-1 for None)    *)
(* and its message.                                                        *)
(***************************************************************************)
Exc(type, status_code, message) ==
    [type |-> type, status_code |-> status_code, message |-> message]

NoExc == Exc(None, -1, None)

\* a CommandError that keeps the initial error_message instead of looking it up
CommandError_no_lookup(status_code) ==
    Exc("CommandError", status_code, "Unknown error")

\* CommandError(status_code=status_code, frame=raw_params): the message is looked up
CommandError(status_code) ==
    Exc("CommandError", status_code, CPH_STATUS_MESSAGES(status_code))

(***************************************************************************)
(* The state.                                                              *)
(*                                                                         *)
(* Every call of send_command_wait_response is one element of Calls; the   *)
(* asyncio.Future it creates is named by the call.                         *)
(***************************************************************************)
VARIABLES
    connected,               \* transport._connected
    sent,                    \* the frames written to the transport, in order
    write_error,             \* a _handle_write_error task has been created and not run
    rx_buffer,               \* Dispatcher._rx_buffer
    pending_responses,       \* Dispatcher._pending_responses: command code -> future
    futures,                 \* the futures: state, result, exception
    notification_callbacks,  \* Dispatcher._notification_callbacks: code -> list
    call,                    \* each call: where it stands, its arguments, its outcome
    rx_pc,                   \* _process_buffer: "idle", or "gather" while callbacks run
    tasks,                   \* the callback tasks the gather in progress waits for
    nresp,                   \* history: valid matching responses arrived during a call
    elapsed,                 \* history: the calls whose wait_for timeout has elapsed
    stream,                  \* the bytes the peer has sent and the transport has not read
    dispatched,              \* history: the frames _process_buffer routed, in order
    buffer,                  \* the bytearray given to find_and_parse_frame
    returned,                \* history: what the calls of find_and_parse_frame returned
    peer_frames,             \* history: the frames the peer sent, in order
    chunks,                  \* history: the lengths of the chunks the transport read
    log,                     \* history: the calls made and the callbacks ended, in order
    kind,                    \* the transport class: "mock", "tcp" or "serial"
    readers,                 \* the reader tasks created so far: where each stands
    reader_task,             \* transport._reader_task: an index of readers, or 0 (None)
    inbox,                   \* mock: _response_queue; tcp, serial: what the peer has sent
    event,                   \* mock: _data_available_event is set
    delivered,               \* history: the chunks given to the sink, in order
    nadded,                  \* history: the number of chunks queued or sent so far
    lock,                    \* transport._connection_lock: the task that holds it, or 0
    procs,                   \* the tasks that call connect and disconnect: where each stands
    called,                  \* history: the calls of connect and disconnect, in order
    completed,               \* history: the calls that have returned or raised, in order
    read_failed,             \* the reader task of the connection met end-of-stream or an error
    reader_state,            \* Reader._state
    scope                    \* "async with reader": where the statement stands

\* the variables of the byte stream studies: the dispatcher specification leaves
\* them alone
\* the variables of the transport and of the reader facade
transport == <<kind, readers, reader_task, inbox, event, delivered, nadded, lock, procs,
               called, completed, read_failed, reader_state, scope>>

peripheral == <<log, transport>>

TransportProcs == 0..2

\* a transport and a reader facade after construction
TransportInit ==
    /\ readers = <<>>
    /\ reader_task = 0
    /\ inbox = <<>>
    /\ event = FALSE
    /\ delivered = <<>>
    /\ nadded = 0
    /\ lock = -1
    /\ procs = [p \in TransportProcs |-> "idle"]
    /\ called = <<>>
    /\ completed = <<>>
    /\ read_failed = FALSE
    /\ reader_state = "DISCONNECTED"
    /\ scope = "outside"

PeripheralInit == log = <<>> /\ kind = "mock" /\ TransportInit

harness == <<stream, dispatched, buffer, returned, peer_frames, chunks, peripheral>>

vars == <<connected, sent, write_error, rx_buffer, pending_responses, futures,
          notification_callbacks, call, rx_pc, tasks, nresp, elapsed, harness>>

Calls == 1..MaxCalls

CmdCodes == {CMD_GET_VERSION, CMD_SET_PARAMETER}

NotifCodes == {NOTIF_TAG_UPLOADED}

Callbacks == {"cb1"}

\* the device addresses a caller passes: the default, and one build_frame rejects
Addresses == {0, 65536}

PyNone == [kind |-> "NoneType", v |-> <<>>]

Future(state, result, exception) ==
    [state |-> state, result |-> result, exception |-> exception]

NoFuture == Future("none", PyNone, NoExc)

PendingFuture == Future("pending", PyNone, NoExc)

\* future.set_result(result)
SetResult(result) == Future("result", result, NoExc)

\* future.set_exception(exception)
SetException(exception) == Future("exception", PyNone, exception)

\* future.cancel(msg): awaiting it raises CancelledError(msg)
Cancelled(msg) == Future("cancelled", PyNone, Exc("CancelledError", -1, msg))

Done(f) == f.state \in {"result", "exception", "cancelled"}

NoOutcome == [kind |-> "none", value |-> PyNone, exc |-> NoExc]

Return(value) == [kind |-> "return", value |-> value, exc |-> NoExc]

Raise(exc) == [kind |-> "raise", value |-> PyNone, exc |-> exc]

IdleCall == [pc |-> "idle", command_code |-> 0, full_frame |-> <<>>, outcome |-> NoOutcome]

\* the dispatcher and its transport after construction
DispatcherInit ==
    /\ connected = FALSE
    /\ sent = <<>>
    /\ write_error = FALSE
    /\ rx_buffer = <<>>
    /\ pending_responses = <<>>
    /\ futures = [c \in Calls |-> NoFuture]
    /\ notification_callbacks = <<>>
    /\ call = [c \in Calls |-> IdleCall]
    /\ rx_pc = "idle"
    /\ tasks = <<>>
    /\ nresp = [c \in Calls |-> 0]
    /\ elapsed = {}

Init ==
    /\ DispatcherInit
    /\ stream = <<>>
    /\ dispatched = <<>>
    /\ buffer = <<>>
    /\ returned = <<>>
    /\ peer_frames = <<>>
    /\ chunks = <<>>
    /\ PeripheralInit

\* d with key k removed
DictDel(d, k) == IF DOMAIN d \ {k} = {} THEN <<>> ELSE [x \in DOMAIN d \ {k} |-> d[x]]

\* d with d[k] = v
DictSet(d, k, v) == (k :> v) @@ d

(***************************************************************************)
(* uhf_rfid/core/dispatcher.py: the bytes-in path.                         *)
(***************************************************************************)
\* a status_code taken from the last byte of a status value that is not an integer
StatusCode_of_raw_bytes(parsed_params) ==
    IF TAG_STATUS \notin DOMAIN parsed_params THEN -1
    ELSE IF parsed_params[TAG_STATUS].kind = "int" THEN parsed_params[TAG_STATUS].v
    ELSE IF parsed_params[TAG_STATUS].v = <<>> THEN -1
    ELSE parsed_params[TAG_STATUS].v[Len(parsed_params[TAG_STATUS].v)]

\* the status the response carries, or -1 (None) when it carries no integer status
StatusCode(parsed_params) ==
    IF TAG_STATUS \in DOMAIN parsed_params /\ parsed_params[TAG_STATUS].kind = "int"
    THEN parsed_params[TAG_STATUS].v
    ELSE -1

\* a _handle_response that reads the future and leaves it in the map (get for pop)
handle_response_keeps_entry(pend, futs, address, frame_code, parsed_params, raw_params) ==
    IF frame_code \in DOMAIN pend /\ ~Done(futs[pend[frame_code]])
    THEN IF StatusCode(parsed_params) # -1 /\ StatusCode(parsed_params) # STATUS_SUCCESS
         THEN [pend |-> pend,
               futs |-> [futs EXCEPT ![pend[frame_code]] =
                            SetException(Exc("CommandError", StatusCode(parsed_params),
                                             CPH_STATUS_MESSAGES(StatusCode(parsed_params))))]]
         ELSE [pend |-> pend,
               futs |-> [futs EXCEPT ![pend[frame_code]] = SetResult(PyDict(parsed_params))]]
    ELSE [pend |-> pend, futs |-> futs]

\* a _handle_response that gives the response to whichever request is pending
handle_response_any_pending(pend, futs, address, frame_code, parsed_params, raw_params) ==
    IF DOMAIN pend = {} THEN [pend |-> pend, futs |-> futs]
    ELSE LET code == CHOOSE k \in DOMAIN pend : TRUE
         IN IF Done(futs[pend[code]])
            THEN [pend |-> DictDel(pend, code), futs |-> futs]
            ELSE [pend |-> DictDel(pend, code),
                  futs |-> [futs EXCEPT ![pend[code]] = SetResult(PyDict(parsed_params))]]

\* a _handle_response without "and not future.done()"
handle_response_on_done_future(pend, futs, address, frame_code, parsed_params, raw_params) ==
    IF frame_code \in DOMAIN pend
    THEN [pend |-> DictDel(pend, frame_code),
          futs |-> [futs EXCEPT ![pend[frame_code]] = SetResult(PyDict(parsed_params))]]
    ELSE [pend |-> pend, futs |-> futs]

\* returns the pending map and the futures afterwards
handle_response(pend, futs, address, frame_code, parsed_params, raw_params) ==
    LET future == IF frame_code \in DOMAIN pend THEN pend[frame_code] ELSE 0
        pend1 == IF frame_code \in DOMAIN pend THEN DictDel(pend, frame_code) ELSE pend
        status_code == StatusCode(parsed_params)
    IN IF future # 0 /\ ~Done(futs[future])
       THEN IF status_code # -1 /\ status_code # STATUS_SUCCESS
            THEN [pend |-> pend1,
                  futs |-> [futs EXCEPT ![future] = SetException(CommandError(status_code))]]
            ELSE [pend |-> pend1,
                  futs |-> [futs EXCEPT ![future] = SetResult(PyDict(parsed_params))]]
       ELSE [pend |-> pend1, futs |-> futs]

\* the callbacks registered for code in cbs
callbacks_of(cbs, code) == IF code \in DOMAIN cbs THEN cbs[code] ELSE <<>>

\* a _handle_notification that runs the callbacks of every code once the code of
\* the frame has a callback
callbacks_to_run_every_code(cbs, address, frame_code, parsed_params) ==
    IF frame_code \in DOMAIN cbs
    THEN [i \in 1..Len(callbacks_of(cbs, NOTIF_TAG_UPLOADED) \o callbacks_of(cbs, NOTIF_HEARTBEAT)) |->
             [cb |-> (callbacks_of(cbs, NOTIF_TAG_UPLOADED) \o callbacks_of(cbs, NOTIF_HEARTBEAT))[i],
              frame_type |-> FRAME_TYPE_NOTIFICATION,
              address |-> address, frame_code |-> frame_code,
              params |-> PyDict(parsed_params)]]
    ELSE <<>>

\* the callbacks _handle_notification copies under the lock, as the tasks it creates
callbacks_to_run(cbs, address, frame_code, parsed_params) ==
    IF frame_code \in DOMAIN cbs
    THEN [i \in 1..Len(cbs[frame_code]) |->
             [cb |-> cbs[frame_code][i], frame_type |-> FRAME_TYPE_NOTIFICATION,
              address |-> address, frame_code |-> frame_code,
              params |-> PyDict(parsed_params)]]
    ELSE <<>>

\* a routing that takes every frame that is no notification for a response
Route_command_as_response(frame_type) ==
    IF frame_type = FRAME_TYPE_NOTIFICATION THEN "notification" ELSE "response"

\* how _process_buffer routes a parsed frame: "response", "notification" or "log"
Route(frame_type) ==
    IF frame_type = FRAME_TYPE_RESPONSE THEN "response"
    ELSE IF frame_type = FRAME_TYPE_NOTIFICATION THEN "notification"
    ELSE "log"

\* a _process_buffer that takes the future of a response whose parameters do not
\* parse out of the map and fails it
route_frame_fails_waiter(f, p, pend, futs, cbs) ==
    IF ~p.ok
    THEN IF f.frame_type = FRAME_TYPE_RESPONSE /\ f.frame_code \in DOMAIN pend
         THEN [pend |-> DictDel(pend, f.frame_code),
               futs |-> [futs EXCEPT ![pend[f.frame_code]] =
                            SetException(Exc("ProtocolError", -1, "TLV parsing error"))],
               tasks |-> <<>>]
         ELSE [pend |-> pend, futs |-> futs, tasks |-> <<>>]
    ELSE IF f.frame_type = FRAME_TYPE_RESPONSE
    THEN handle_response(pend, futs, f.address, f.frame_code, p.tlvs, f.parameters)
         @@ [tasks |-> <<>>]
    ELSE IF f.frame_type = FRAME_TYPE_NOTIFICATION
    THEN [pend |-> pend, futs |-> futs,
          tasks |-> callbacks_to_run(cbs, f.address, f.frame_code, p.tlvs)]
    ELSE [pend |-> pend, futs |-> futs, tasks |-> <<>>]

\* _process_buffer routes the frame f, whose parameters parsed to p (a frame whose
\* parameters do not parse is logged): the pending map, the futures and the callback
\* tasks to await afterwards
route_frame(f, p, pend, futs, cbs) ==
    IF ~p.ok THEN [pend |-> pend, futs |-> futs, tasks |-> <<>>]
    ELSE IF Route(f.frame_type) = "response"
    THEN handle_response(pend, futs, f.address, f.frame_code, p.tlvs, f.parameters)
         @@ [tasks |-> <<>>]
    ELSE IF Route(f.frame_type) = "notification"
    THEN [pend |-> pend, futs |-> futs,
          tasks |-> callbacks_to_run(cbs, f.address, f.frame_code, p.tlvs)]
    ELSE [pend |-> pend, futs |-> futs, tasks |-> <<>>]

RECURSIVE process_buffer(_, _, _, _, _)

\* a loop that ends after the first frame it routed
frame_routed_once(r, t, cbs, frames) ==
    [buf |-> r.buffer, pend |-> t.pend, futs |-> t.futs, tasks |-> t.tasks,
     frames |-> frames]

\* after the frame of r was routed with the outcome t: the loop awaits the callbacks
\* of a notification, or goes on with the rest of the buffer
frame_routed(r, t, cbs, frames) ==
    IF t.tasks # <<>>
    THEN [buf |-> r.buffer, pend |-> t.pend, futs |-> t.futs, tasks |-> t.tasks,
          frames |-> frames]
    ELSE process_buffer(r.buffer, t.pend, t.futs, cbs, frames)

\* the frame of r is parsed to p and routed
frame_parsed(r, p, pend, futs, cbs, frames) ==
    frame_routed(r, route_frame(r.frame, p, pend, futs, cbs), cbs,
                 Append(frames, [frame_type |-> r.frame.frame_type,
                                 address |-> r.frame.address,
                                 frame_code |-> r.frame.frame_code,
                                 parameters |-> r.frame.parameters, ok |-> p.ok]))

\* one turn of the loop with the result r of find_and_parse_frame
frame_found(r, pend, futs, cbs, frames) ==
    IF ~r.found
    THEN [buf |-> r.buffer, pend |-> pend, futs |-> futs, tasks |-> <<>>, frames |-> frames]
    ELSE frame_parsed(r, parse_parameters(r.frame.frame_code, r.frame.frame_type,
                                          r.frame.parameters),
                      pend, futs, cbs, frames)

\* The loop of _process_buffer from the buffer buf on, up to the point where
\* find_and_parse_frame returns None or to a notification whose callbacks the loop
\* then awaits.  frames lists the frames extracted, in order.
process_buffer(buf, pend, futs, cbs, frames) ==
    frame_found(find_and_parse_frame(buf), pend, futs, cbs, frames)

\* the number of valid response frames of code command_code among frames
Matching(frames, command_code) ==
    Cardinality({i \in 1..Len(frames) :
                    /\ frames[i].ok
                    /\ frames[i].frame_type = FRAME_TYPE_RESPONSE
                    /\ frames[i].frame_code = command_code})

\* the state after _process_buffer ran with the outcome r
Received(r) ==
    /\ rx_buffer' = r.buf
    /\ pending_responses' = r.pend
    /\ futures' = r.futs
    /\ tasks' = r.tasks
    /\ rx_pc' = IF r.tasks = <<>> THEN "idle" ELSE "gather"
    /\ nresp' = [c \in Calls |->
                    IF call[c].pc \in {"sending", "waiting"}
                    THEN Min(2, nresp[c] + Matching(r.frames, call[c].command_code))
                    ELSE nresp[c]]

\* _process_buffer runs from the buffer buf
RunProcessBuffer(buf) ==
    Received(process_buffer(buf, pending_responses, futures, notification_callbacks, <<>>))

\* the transport hands the chunk data to the sink
data_received_handler(data) ==
    /\ rx_pc = "idle"
    /\ Len(rx_buffer) + Len(data) <= MaxBuffer
    /\ UNCHANGED <<connected, sent, write_error, notification_callbacks, call, elapsed,
                   harness>>
    /\ RunProcessBuffer(rx_buffer \o data)

\* one of the callback tasks of the gather in progress completes
callback_done(i) ==
    /\ rx_pc = "gather"
    /\ i \in 1..Len(tasks)
    /\ tasks' = SubSeq(tasks, 1, i - 1) \o SubSeq(tasks, i + 1, Len(tasks))
    /\ UNCHANGED <<connected, sent, write_error, rx_buffer, pending_responses, futures,
                   notification_callbacks, call, rx_pc, nresp, elapsed, harness>>

\* all callbacks of the notification are done: _process_buffer loops again
gather_done ==
    /\ rx_pc = "gather"
    /\ tasks = <<>>
    /\ UNCHANGED <<connected, sent, write_error, notification_callbacks, call, elapsed,
                   harness>>
    /\ RunProcessBuffer(rx_buffer)

(***************************************************************************)
(* uhf_rfid/core/dispatcher.py: the command path.                          *)
(*                                                                         *)
(* A call stands at "idle" (not issued), "sending" (suspended in           *)
(* transport.send), "waiting" (suspended in wait_for), "timing_out"        *)
(* (wait_for has cancelled the future on timeout and has not yet raised)   *)
(* or "done".                                                              *)
(***************************************************************************)
Finish(c, outcome) == [call EXCEPT ![c].pc = "done", ![c].outcome = outcome]

\* a clean-up that deletes the entry of the code, whoever owns it
RemoveByCode(pend, c) ==
    IF call[c].command_code \in DOMAIN pend
    THEN DictDel(pend, call[c].command_code)
    ELSE pend

\* the clean-up of the except branches: "if command_code in pending and it is future"
RemoveOwn(pend, c) ==
    IF call[c].command_code \in DOMAIN pend /\ pend[call[c].command_code] = c
    THEN DictDel(pend, call[c].command_code)
    ELSE pend

\* "if not future.done(): future.cancel(msg)"
CancelIfNotDone(futs, c, msg) ==
    IF Done(futs[c]) THEN futs ELSE [futs EXCEPT ![c] = Cancelled(msg)]

\* lines 174-186: the new future replaces, and fails, the one pending for the code
InsertFuture(pend, futs, c, command_code) ==
    LET futs1 == IF command_code \in DOMAIN pend /\ ~Done(futs[pend[command_code]])
                 THEN [futs EXCEPT ![pend[command_code]] =
                          SetException(Exc("TimeoutError", -1, "Superseded by new command"))]
                 ELSE futs
    IN [pend |-> DictSet(pend, command_code, c),
        futs |-> [futs1 EXCEPT ![c] = PendingFuture]]

\* a write that hands the writer the data short of its last byte
writer_write_partial(buffered, data) ==
    Append(buffered, SubSeq(data, 1, Len(data) - 1))

\* self._writer.write(data) of transport.send: one synchronous call that appends
\* the whole of data to what the writer has been given so far
writer_write(buffered, data) == Append(buffered, data)

\* a send_command_wait_response without the check of transport.is_connected()
send_command_unchecked(c, command_code, address, params_data) ==
    /\ call[c].pc = "idle"
    /\ \A d \in Calls : d < c => call[d].pc # "idle"
    /\ encode_command(command_code, address, params_data).ok
    /\ pending_responses' = InsertFuture(pending_responses, futures, c, command_code).pend
    /\ futures' = InsertFuture(pending_responses, futures, c, command_code).futs
    /\ sent' = writer_write(sent, encode_command(command_code, address, params_data).data)
    /\ call' = [call EXCEPT ![c] =
           [pc |-> "sending", command_code |-> command_code,
            full_frame |-> encode_command(command_code, address, params_data).data,
            outcome |-> NoOutcome]]
    /\ UNCHANGED <<connected, write_error, rx_buffer, notification_callbacks, rx_pc,
                   tasks, nresp, elapsed, harness>>

\* The call up to its first suspension: the connection check, the insertion of the
\* future, the encoding, and the write of transport.send.
send_command_wait_response(c, command_code, address, params_data) ==
    /\ call[c].pc = "idle"
    /\ \A d \in Calls : d < c => call[d].pc # "idle"
    /\ IF ~connected
       THEN /\ call' = [call EXCEPT ![c] =
                   [pc |-> "done", command_code |-> command_code, full_frame |-> <<>>,
                    outcome |-> Raise(Exc("TransportError", -1,
                                          "Cannot send command: Not connected."))]]
            /\ UNCHANGED <<sent, pending_responses, futures>>
       ELSE LET ins == InsertFuture(pending_responses, futures, c, command_code)
                full_frame == encode_command(command_code, address, params_data)
            IN IF ~full_frame.ok
               THEN \* ValueError: the "except Exception" branch
                    /\ pending_responses' = DictDel(ins.pend, command_code)
                    /\ futures' = [ins.futs EXCEPT ![c] = Cancelled("ValueError")]
                    /\ call' = [call EXCEPT ![c] =
                           [pc |-> "done", command_code |-> command_code,
                            full_frame |-> <<>>,
                            outcome |-> Raise(Exc("UhfRfidError", -1, "Unexpected error"))]]
                    /\ UNCHANGED sent
               ELSE /\ pending_responses' = ins.pend
                    /\ futures' = ins.futs
                    /\ sent' = writer_write(sent, full_frame.data)
                    /\ call' = [call EXCEPT ![c] =
                           [pc |-> "sending", command_code |-> command_code,
                            full_frame |-> full_frame.data, outcome |-> NoOutcome]]
    /\ UNCHANGED <<connected, write_error, rx_buffer, notification_callbacks, rx_pc,
                   tasks, nresp, elapsed, harness>>

\* a set_power that sends the request whatever the encoder says
set_power_unchecked(c, power_dbm, address) ==
    send_command_wait_response(c, CMD_SET_PARAMETER, address,
                               <<TAG_SINGLE_PARAMETER, 2, PARAM_TYPE_POWER, power_dbm>>)

\* the power values a caller passes to Reader.set_power: one the encoder accepts
\* and one it rejects
Powers == {30, 34}

\* Reader.set_power on a reader whose state is CONNECTED: _execute_command encodes
\* the request and, unless the encoder raised, calls send_command_wait_response
\* with the encoded parameters.  The outcome kept for the call is the error of
\* the encoder or the outcome of send_command_wait_response.
set_power(c, power_dbm, address) ==
    IF ~encode_set_power_request(power_dbm).ok
    THEN /\ call[c].pc = "idle"
         /\ \A d \in Calls : d < c => call[d].pc # "idle"
         /\ call' = [call EXCEPT ![c] =
                [pc |-> "done", command_code |-> CMD_SET_PARAMETER, full_frame |-> <<>>,
                 outcome |-> Raise(Exc("CommandError", -1, "Failed to encode request"))]]
         /\ UNCHANGED <<connected, sent, write_error, rx_buffer, pending_responses,
                        futures, notification_callbacks, rx_pc, tasks, nresp, elapsed,
                   harness>>
    ELSE send_command_wait_response(c, CMD_SET_PARAMETER, address,
                                    encode_set_power_request(power_dbm).data)

\* wait_for(future) ends with the future done: lines 198-200 and 212-220
AfterWait(c) ==
    LET f == futures[c] IN
    /\ Done(f)
    /\ IF f.state = "result"
       THEN call' = Finish(c, Return(f.result)) /\ UNCHANGED pending_responses
       ELSE IF f.state = "exception"
       THEN /\ call' = Finish(c, Raise(f.exception))
            /\ pending_responses' = RemoveOwn(pending_responses, c)
       ELSE \* CancelledError is no Exception: no except branch runs
            call' = Finish(c, Raise(f.exception)) /\ UNCHANGED pending_responses
    /\ UNCHANGED futures

\* transport.send returns; wait_for returns at once when the future is already done
send_done(c) ==
    /\ call[c].pc = "sending"
    /\ IF Done(futures[c])
       THEN AfterWait(c)
       ELSE /\ call' = [call EXCEPT ![c].pc = "waiting"]
            /\ UNCHANGED <<pending_responses, futures>>
    /\ UNCHANGED <<connected, sent, write_error, rx_buffer, notification_callbacks, rx_pc,
                   tasks, nresp, elapsed, harness>>

\* a failed send whose except branch leaves the entry of the future in the map
send_fail_keeps_entry(c) ==
    /\ call[c].pc = "sending"
    /\ write_error' = (write_error \/ connected)
    /\ futures' = CancelIfNotDone(futures, c, "WriteError")
    /\ call' = Finish(c, Raise(Exc("WriteError", -1, "Connection error during send")))
    /\ UNCHANGED <<connected, sent, rx_buffer, pending_responses, notification_callbacks,
                   rx_pc, tasks, nresp, elapsed, harness>>

\* transport.send raises WriteError (a broken TCP channel): lines 212-220
send_fail(c) ==
    /\ call[c].pc = "sending"
    /\ write_error' = (write_error \/ connected)
    /\ pending_responses' = RemoveOwn(pending_responses, c)
    /\ futures' = CancelIfNotDone(futures, c, "WriteError")
    /\ call' = Finish(c, Raise(Exc("WriteError", -1, "Connection error during send")))
    /\ UNCHANGED <<connected, sent, rx_buffer, notification_callbacks, rx_pc, tasks, nresp, elapsed,
                   harness>>

\* the task TcpTransport.send created for _handle_write_error runs
handle_write_error ==
    /\ write_error
    /\ write_error' = FALSE
    /\ connected' = FALSE
    /\ UNCHANGED <<sent, rx_buffer, pending_responses, futures, notification_callbacks,
                   call, rx_pc, tasks, nresp, elapsed, harness>>

\* the awaiter resumes from wait_for with the future done
resume(c) ==
    /\ call[c].pc = "waiting"
    /\ AfterWait(c)
    /\ UNCHANGED <<connected, sent, write_error, rx_buffer, notification_callbacks, rx_pc,
                   tasks, nresp, elapsed, harness>>

\* the timeout of wait_for elapses before the future is done: wait_for cancels it
timeout_fire(c) ==
    /\ call[c].pc = "waiting"
    /\ ~Done(futures[c])
    /\ futures' = [futures EXCEPT ![c] = Cancelled("")]
    /\ call' = [call EXCEPT ![c].pc = "timing_out"]
    /\ elapsed' = elapsed \cup {c}
    /\ UNCHANGED <<connected, sent, write_error, rx_buffer, pending_responses,
                   notification_callbacks, rx_pc, tasks, nresp, harness>>

\* a timeout branch that raises without deleting the entry of the future
timeout_handle_keeps_entry(c) ==
    /\ call[c].pc = "timing_out"
    /\ futures' = CancelIfNotDone(futures, c, "Timeout")
    /\ call' = Finish(c, Raise(Exc("TimeoutError", -1, "No response received")))
    /\ UNCHANGED <<connected, sent, write_error, rx_buffer, pending_responses,
                   notification_callbacks, rx_pc, tasks, nresp, elapsed, harness>>

\* wait_for raises asyncio.TimeoutError: lines 202-211
timeout_handle(c) ==
    /\ call[c].pc = "timing_out"
    /\ pending_responses' = RemoveOwn(pending_responses, c)
    /\ futures' = CancelIfNotDone(futures, c, "Timeout")
    /\ call' = Finish(c, Raise(Exc("TimeoutError", -1, "No response received")))
    /\ UNCHANGED <<connected, sent, write_error, rx_buffer, notification_callbacks, rx_pc,
                   tasks, nresp, elapsed, harness>>

\* The caller cancels the task that runs the call.  CancelledError is raised at the
\* await the task is suspended in; wait_for cancels the future it waits for; no
\* except branch of send_command_wait_response catches it.
abandon(c) ==
    /\ \/ call[c].pc = "sending" /\ UNCHANGED futures
       \/ /\ call[c].pc = "waiting"
          /\ ~Done(futures[c])
          /\ futures' = [futures EXCEPT ![c] = Cancelled("")]
    /\ call' = Finish(c, Raise(Exc("CancelledError", -1, "")))
    /\ UNCHANGED <<connected, sent, write_error, rx_buffer, pending_responses,
                   notification_callbacks, rx_pc, tasks, nresp, elapsed, harness>>

\* the call was abandoned while it waited in wait_for
Abandoned(c) ==
    /\ call[c].pc = "done"
    /\ call[c].outcome = Raise(Exc("CancelledError", -1, ""))
    /\ futures[c] = Cancelled("")

\* The timeout given to wait_for elapses after the call was abandoned.  wait_for was
\* left with the CancelledError and took its timer with it: no code runs.
timeout_elapses(c) ==
    /\ Abandoned(c)
    /\ c \notin elapsed
    /\ elapsed' = elapsed \cup {c}
    /\ UNCHANGED <<connected, sent, write_error, rx_buffer, pending_responses, futures,
                   notification_callbacks, call, rx_pc, tasks, nresp, harness>>

(***************************************************************************)
(* uhf_rfid/core/dispatcher.py: subscriptions and cleanup.                 *)
(***************************************************************************)
register_notification_callback(frame_code, callback) ==
    /\ LET list == IF frame_code \in DOMAIN notification_callbacks
                   THEN notification_callbacks[frame_code] ELSE <<>>
       IN /\ \A i \in 1..Len(list) : list[i] # callback
          /\ notification_callbacks' =
                 DictSet(notification_callbacks, frame_code, Append(list, callback))
    /\ UNCHANGED <<connected, sent, write_error, rx_buffer, pending_responses, futures,
                   call, rx_pc, tasks, nresp, elapsed, harness>>

\* a cleanup that clears the map and cancels nothing
cleanup_clear_only ==
    /\ pending_responses' = <<>>
    /\ UNCHANGED <<connected, sent, write_error, rx_buffer, futures,
                   notification_callbacks, call, rx_pc, tasks, nresp, elapsed, harness>>

\* lines 289-302: every future of the map that is not done is cancelled, the map is
\* cleared; the statements that clear _notification_callbacks are commented out
cleanup ==
    /\ futures' = [c \in Calls |->
                      IF /\ \E code \in DOMAIN pending_responses : pending_responses[code] = c
                         /\ ~Done(futures[c])
                      THEN Cancelled("Dispatcher cleanup")
                      ELSE futures[c]]
    /\ pending_responses' = <<>>
    /\ UNCHANGED <<connected, sent, write_error, rx_buffer, notification_callbacks, call,
                   rx_pc, tasks, nresp, elapsed, harness>>

(***************************************************************************)
(* uhf_rfid/transport: the connection as the dispatcher sees it.           *)
(***************************************************************************)
connect ==
    /\ ~connected
    /\ connected' = TRUE
    /\ UNCHANGED <<sent, write_error, rx_buffer, pending_responses, futures,
                   notification_callbacks, call, rx_pc, tasks, nresp, elapsed, harness>>

disconnect ==
    /\ connected
    /\ connected' = FALSE
    /\ UNCHANGED <<sent, write_error, rx_buffer, pending_responses, futures,
                   notification_callbacks, call, rx_pc, tasks, nresp, elapsed, harness>>

(***************************************************************************)
(* The chunks the transport delivers, and the specification.               *)
(***************************************************************************)
\* build_mock_response of the tests: a response frame with the given parameters
Response(cmd_code, params) == build_frame(FRAME_TYPE_RESPONSE, 0, cmd_code, params).data

StatusTlv(status_code) == build_tlv(TAG_STATUS, <<status_code>>).data

\* the frames the peer sends, each delivered as one chunk: for each command code a
\* response of status 0 and one of a non-zero status, a response to a command code
\* that is never issued, a command-type frame, and a tag notification
Chunks ==
    {Response(code, StatusTlv(STATUS_SUCCESS)) : code \in CmdCodes}
    \cup {Response(code, StatusTlv(STATUS_PARAMETER_UNSUPPORTED)) : code \in CmdCodes}
    \cup {Response(153, StatusTlv(STATUS_SUCCESS)),
          build_frame(FRAME_TYPE_COMMAND, 0, CMD_GET_VERSION, StatusTlv(STATUS_SUCCESS)).data,
          build_frame(FRAME_TYPE_NOTIFICATION, 0, NOTIF_TAG_UPLOADED,
                      <<TAG_SINGLE_TAG, 4, TAG_EPC, 2, 226, 0>>).data}

Next ==
    \/ \E c \in Calls, code \in CmdCodes, a \in Addresses :
           send_command_wait_response(c, code, a, <<>>)
    \/ \E c \in Calls, power_dbm \in Powers : set_power(c, power_dbm, 0)
    \/ \E c \in Calls : send_done(c)
    \/ \E c \in Calls : send_fail(c)
    \/ \E c \in Calls : resume(c)
    \/ \E c \in Calls : timeout_fire(c)
    \/ \E c \in Calls : timeout_handle(c)
    \/ \E c \in Calls : abandon(c)
    \/ \E c \in Calls : timeout_elapses(c)
    \/ \E data \in Chunks : data_received_handler(data)
    \/ \E i \in 1..Cardinality(Callbacks) : callback_done(i)
    \/ gather_done
    \/ \E code \in NotifCodes, cb \in Callbacks : register_notification_callback(code, cb)
    \/ cleanup
    \/ connect
    \/ disconnect
    \/ handle_write_error

Spec == Init /\ [][Next]_vars

(***************************************************************************)
(* The properties of the dispatcher.                                       *)
(***************************************************************************)
\* the future of call c is in the pending map and is not done
Pending(c) ==
    /\ call[c].command_code \in DOMAIN pending_responses
    /\ pending_responses[call[c].command_code] = c
    /\ ~Done(futures[c])

\* the pending map holds the future of call c
InMap(c) ==
    /\ call[c].command_code \in DOMAIN pending_responses
    /\ pending_responses[call[c].command_code] = c

\* the awaiter of call c leaves wait_for: it was suspended there, or enters it with
\* the future already done
awaiter_resumes(c) == resume(c) \/ send_done(c)

StatusMap(status_code) == PyDict(TAG_STATUS :> PyInt(status_code))

\* C1: when a call is pending and a valid response frame of its code with status
\* TLV 0 arrives before the timeout, the future is resolved with the parsed TLV
\* map of that response, status TLV included, and the entry of the code is
\* removed from the pending map; the awaiter then resumes with that map.
C1_SuccessResolvesAwaiter ==
    [][\A c \in Calls :
          /\ (/\ Pending(c)
              /\ data_received_handler(Response(call[c].command_code,
                                                StatusTlv(STATUS_SUCCESS))))
             => /\ futures'[c] = SetResult(StatusMap(STATUS_SUCCESS))
                /\ call[c].command_code \notin DOMAIN pending_responses'
          /\ (futures[c].state = "result" /\ awaiter_resumes(c))
             => /\ call'[c].pc = "done"
                /\ call'[c].outcome = Return(futures[c].result)
                /\ ~InMap(c)']_vars

C1_Witness ==
    \E c \in Calls :
        /\ call[c].pc = "done"
        /\ call[c].outcome = Return(StatusMap(STATUS_SUCCESS))
        /\ call[c].command_code \notin DOMAIN pending_responses

\* C2, as stated: a call that ended has received the parsed response if and only
\* if exactly one valid response frame of its code arrived while it was in flight.
C2_ExactlyOneResponse ==
    \A c \in Calls :
        call[c].pc = "done" => (call[c].outcome.kind = "return" <=> nresp[c] = 1)

\* C2, amended: an awaiter receives a parsed response only if at least one valid
\* response frame of its code arrived while the call was in flight; what it
\* receives is the value its future was resolved with, the parsed map of a
\* response that carries no error status.
C2_ResponseOnlyIfArrived ==
    \A c \in Calls :
        call[c].outcome.kind = "return"
        => /\ nresp[c] >= 1
           /\ futures[c].state = "result"
           /\ call[c].outcome.value = futures[c].result
           /\ StatusCode(call[c].outcome.value.v) \in {-1, STATUS_SUCCESS}

\* the awaiter received the response although two matching frames arrived
C2_Witness ==
    \E c \in Calls : call[c].outcome.kind = "return" /\ nresp[c] = 2

ReaderError(status_code) ==
    CASE status_code = STATUS_PARAMETER_UNSUPPORTED ->
           Exc("CommandError", 20, "PARAMETER_UNSUPPORTED: Unsupported parameter type.")
      [] OTHER -> Exc("CommandError", status_code, "Unknown reader status code")

\* C3: when the response to a pending command carries a non-zero status TLV, the
\* future of that command, and no other, fails with a CommandError whose
\* status_code is the status byte and whose message is the fixed lookup for it,
\* and the entry is removed from the pending map; the awaiter of that command,
\* and no other, then fails with that CommandError.
C3_ReaderErrorFailsAwaiter ==
    [][\A c \in Calls :
          /\ (/\ Pending(c)
              /\ data_received_handler(Response(call[c].command_code,
                                                StatusTlv(STATUS_PARAMETER_UNSUPPORTED))))
             => /\ futures'[c] = SetException(ReaderError(STATUS_PARAMETER_UNSUPPORTED))
                /\ \A d \in Calls \ {c} : futures'[d] = futures[d]
                /\ call[c].command_code \notin DOMAIN pending_responses'
          /\ (futures[c].exception.type = "CommandError" /\ awaiter_resumes(c))
             => /\ call'[c].pc = "done"
                /\ call'[c].outcome = Raise(futures[c].exception)
                /\ \A d \in Calls \ {c} : call'[d] = call[d]
                /\ ~InMap(c)']_vars

\* one awaiter failed with the CommandError while another call is still waiting
C3_Witness ==
    \E c, d \in Calls :
        /\ call[c].outcome = Raise(ReaderError(STATUS_PARAMETER_UNSUPPORTED))
        /\ call[c].command_code \notin DOMAIN pending_responses
        /\ call[d].pc = "waiting"
        /\ Pending(d)

TimeoutRaised == Raise(Exc("TimeoutError", -1, "No response received"))

\* C4: when the timeout elapses with no response of the command's code having
\* arrived for it, the awaiter observes TimeoutError; the command frame was sent
\* all the same, and the pending map then holds no entry for that command.
C4_TimeoutObserved ==
    \A c \in Calls :
        /\ (call[c].pc = "done" /\ c \in elapsed /\ ~Abandoned(c))
           => call[c].outcome = TimeoutRaised
        /\ call[c].outcome = TimeoutRaised
           => /\ c \in elapsed
              /\ call[c].full_frame # <<>>
              /\ \E i \in 1..Len(sent) : sent[i] = call[c].full_frame
              /\ ~InMap(c)

C4_Witness ==
    \E c \in Calls :
        /\ call[c].outcome = TimeoutRaised
        /\ nresp[c] = 0
        /\ sent = <<call[c].full_frame>>
        /\ pending_responses = <<>>

SupersededError == Exc("TimeoutError", -1, "Superseded by new command")

\* C5: a call made, with the transport connected, for a code whose earlier call
\* is still pending fails the earlier future with the superseded error and makes
\* the new future the entry of the code; at all times a future that is not done is the one entry of its code (at
\* most one outstanding request per code); the earlier awaiter fails with the
\* superseded error and its clean-up leaves the pending map as it is; the next
\* matching response resolves the new future and not the earlier one.
C5_Supersede ==
    /\ [](\A c \in Calls : futures[c].state = "pending" => InMap(c))
    /\ [][\A c1, c2 \in Calls :
             /\ (/\ Pending(c1)
                 /\ connected
                 /\ send_command_wait_response(c2, call[c1].command_code, 0, <<>>))
                => /\ futures'[c1] = SetException(SupersededError)
                   /\ futures'[c2] = PendingFuture
                   /\ pending_responses'[call[c1].command_code] = c2
             /\ (futures[c1].exception = SupersededError /\ awaiter_resumes(c1))
                => /\ call'[c1].outcome = Raise(SupersededError)
                   /\ pending_responses' = pending_responses
             /\ (/\ futures[c1].exception = SupersededError
                 /\ call[c2].command_code = call[c1].command_code
                 /\ Pending(c2)
                 /\ data_received_handler(Response(call[c2].command_code,
                                                   StatusTlv(STATUS_SUCCESS))))
                => /\ futures'[c2] = SetResult(StatusMap(STATUS_SUCCESS))
                   /\ futures'[c1] = futures[c1]]_vars

\* the earlier awaiter failed as superseded and the new one received the response
C5_Witness ==
    \E c1, c2 \in Calls :
        /\ call[c1].outcome = Raise(SupersededError)
        /\ call[c2].command_code = call[c1].command_code
        /\ call[c2].outcome = Return(StatusMap(STATUS_SUCCESS))

\* C6, as stated: once the timeout of a call whose wait was abandoned has
\* elapsed, the pending map no longer holds the future of that call.
C6_AbandonedHandleRemoved ==
    \A c \in Calls : (Abandoned(c) /\ c \in elapsed) => ~InMap(c)

CleanupCancelled == Exc("CancelledError", -1, "Dispatcher cleanup")

\* C7: cleanup() cancels every future of the pending map that is not done and
\* leaves the map empty; an awaiter whose future cleanup cancelled observes the
\* cancellation, and an awaiter whose future is done is never left waiting.
C7_CleanupCancelsPending ==
    /\ [](\A c \in Calls :
             (call[c].pc = "waiting" /\ Done(futures[c])) => ENABLED resume(c))
    /\ [][\A c \in Calls :
             /\ cleanup
                => /\ pending_responses' = <<>>
                   /\ Pending(c) => futures'[c] = Cancelled("Dispatcher cleanup")
             /\ (futures[c].exception = CleanupCancelled /\ awaiter_resumes(c))
                => /\ call'[c].pc = "done"
                   /\ call'[c].outcome = Raise(CleanupCancelled)]_vars

\* every call was pending at cleanup and each awaiter observed the cancellation
C7_Witness ==
    /\ pending_responses = <<>>
    /\ \A c \in Calls : call[c].outcome = Raise(CleanupCancelled)

\* C8, as stated: cleanup() leaves the subscription map empty.
C8_CleanupClearsSubscriptions ==
    [][cleanup => notification_callbacks' = <<>>]_vars

\* the response frames the peer sends: the code and the status of each
ResponseFrames ==
    [code : CmdCodes, status_code : {STATUS_SUCCESS, STATUS_PARAMETER_UNSUPPORTED}]
    \cup {[code |-> 153, status_code |-> STATUS_SUCCESS]}

\* C9: a response frame whose code has no entry in the pending map, and a
\* command-type frame from the peer, are discarded: no future is resolved, no
\* call ends, and the pending map and the subscription map stay as they are.  A
\* response whose entry holds a future that is already done resolves no future
\* and ends no call either.  Stated by contraposition: a step that changes any
\* of these is not the reception of such a frame.
C9_UnexpectedFrameDiscarded ==
    [][/\ \/ UNCHANGED <<pending_responses, futures, notification_callbacks, call, tasks>>
          \/ /\ \A f \in ResponseFrames :
                   ~(/\ f.code \notin DOMAIN pending_responses
                     /\ data_received_handler(Response(f.code, StatusTlv(f.status_code))))
             /\ ~data_received_handler(build_frame(FRAME_TYPE_COMMAND, 0, CMD_GET_VERSION,
                                                   StatusTlv(STATUS_SUCCESS)).data)
       /\ \/ UNCHANGED <<futures, notification_callbacks, call, tasks>>
          \/ \A f \in ResponseFrames :
                ~(/\ f.code \in DOMAIN pending_responses
                  /\ Done(futures[pending_responses[f.code]])
                  /\ data_received_handler(Response(f.code, StatusTlv(f.status_code))))]_vars

\* the one call issued was answered by the first of two matching responses; the
\* second found no entry, and the subscription is still there
C9_Witness ==
    \E c \in Calls :
        /\ nresp[c] = 2
        /\ futures[c].state = "result"
        /\ \A d \in Calls \ {c} : call[d].pc = "idle"
        /\ pending_responses = <<>>
        /\ notification_callbacks # <<>>

NotConnected == Raise(Exc("TransportError", -1, "Cannot send command: Not connected."))

\* C10: send_command_wait_response called while the transport is not connected
\* fails with TransportError at once: no future is created or inserted in the
\* pending map and nothing is written to the transport.
C10_NotConnectedFails ==
    [][\A c \in Calls, code \in CmdCodes, a \in Addresses :
          (~connected /\ send_command_wait_response(c, code, a, <<>>))
          => /\ call'[c].pc = "done"
             /\ call'[c].outcome = NotConnected
             /\ UNCHANGED <<pending_responses, futures, sent>>]_vars

C10_Witness ==
    \E c \in Calls :
        /\ call[c].outcome = NotConnected
        /\ futures[c] = NoFuture
        /\ sent = <<>>
        /\ pending_responses = <<>>

\* the specification with the task of _handle_write_error run once it is created
SpecWriteError == Spec /\ WF_vars(handle_write_error)

WriteFailed == Raise(Exc("WriteError", -1, "Connection error during send"))

\* C11: when transport.send fails, the call ends with the WriteError the transport
\* raised, the pending map no longer holds the future of the call and the future
\* is done; a failure on a connected TCP transport creates the task of
\* _handle_write_error, and once that task exists the transport gets disconnected.
C11_SendFailurePropagates ==
    /\ [][\A c \in Calls :
             send_fail(c) => /\ call'[c].pc = "done"
                             /\ call'[c].outcome = WriteFailed
                             /\ ~InMap(c)'
                             /\ Done(futures'[c])
                             /\ connected => write_error']_vars
    /\ [][handle_write_error => ~connected']_vars
    /\ (write_error ~> ~connected)

\* a send failed on a connected transport: the call has ended with the error, its
\* future is cancelled and out of the map, and the write-error task is created
C11_Witness ==
    \E c \in Calls :
        /\ call[c].outcome = WriteFailed
        /\ futures[c] = Cancelled("WriteError")
        /\ ~InMap(c)
        /\ connected
        /\ write_error
        /\ \A d \in Calls \ {c} : call[d].pc = "idle"

EncodeFailed == Raise(Exc("CommandError", -1, "Failed to encode request"))

FrameRejected == Raise(Exc("UhfRfidError", -1, "Unexpected error"))

\* C12: when the request encoder raises (Reader.set_power with a power the
\* encoder rejects) the caller gets CommandError "Failed to encode request" and
\* the dispatcher is not called: nothing is written, no future is created or
\* inserted.  When build_frame rejects a field (an address over 0xFFFF) the call
\* ends with an error, nothing is written, the future of the call is done and
\* the pending map holds no entry for the command code.
C12_EncodeFailure ==
    [][/\ \A c \in Calls, power_dbm \in Powers :
             (~encode_set_power_request(power_dbm).ok /\ set_power(c, power_dbm, 0))
             => /\ call'[c].pc = "done"
                /\ call'[c].outcome = EncodeFailed
                /\ UNCHANGED <<sent, pending_responses, futures>>
       /\ \A c \in Calls, code \in CmdCodes, a \in Addresses :
             (/\ connected
              /\ ~encode_command(code, a, <<>>).ok
              /\ send_command_wait_response(c, code, a, <<>>))
             => /\ call'[c].pc = "done"
                /\ call'[c].outcome = FrameRejected
                /\ UNCHANGED sent
                /\ Done(futures'[c])
                /\ code \notin DOMAIN pending_responses']_vars

\* one call failed in the encoder and one in build_frame, on a connected
\* transport: nothing was written and the pending map is empty
C12_Witness ==
    /\ connected
    /\ \E c \in Calls : call[c].outcome = EncodeFailed /\ futures[c] = NoFuture
    /\ \E c \in Calls : call[c].outcome = FrameRejected /\ Done(futures[c])
    /\ sent = <<>>
    /\ pending_responses = <<>>

RECURSIVE Concat(_)
\* the bytes of the sequences of seqs, one after the other
Concat(seqs) == IF seqs = <<>> THEN <<>> ELSE Head(seqs) \o Concat(Tail(seqs))

\* the bytes handed to the writer, in the order they go on the wire
Wire == Concat(sent)

\* call c is inside transport.send: it has written and is suspended in drain()
InSend(c) == call[c].pc = "sending"

MaxFinds == 3

\* the frames of the streams: a command without parameters, a response with a
\* status, and a tag notification
FrameFields ==
    {[frame_type |-> FRAME_TYPE_COMMAND, address |-> 0, frame_code |-> CMD_GET_VERSION,
      parameters |-> <<>>],
     [frame_type |-> FRAME_TYPE_RESPONSE, address |-> 0, frame_code |-> CMD_GET_VERSION,
      parameters |-> StatusTlv(STATUS_SUCCESS)],
     [frame_type |-> FRAME_TYPE_NOTIFICATION, address |-> 258,
      frame_code |-> NOTIF_TAG_UPLOADED,
      parameters |-> <<TAG_SINGLE_TAG, 4, TAG_EPC, 2, 226, 0>>]}

\* the bytes of the frame with the fields x
Built(x) == build_frame(x.frame_type, x.address, x.frame_code, x.parameters).data

ValidFrames == {Built(x) : x \in FrameFields}

\* the frame f with its checksum byte off by one
BadChecksum(f) == [f EXCEPT ![Len(f)] = (f[Len(f)] + 1) % 256]

\* bytes before a frame that hold no header: none, two, four, and a lone 'R'
Junk == {<<>>, <<1, 2>>, <<222, 173, 190, 239>>, <<82>>}

\* the streams: junk, a frame that is valid or has a bad checksum, and then a
\* valid frame or nothing
FramingStreams ==
    {j \o f1 \o f2 : j \in Junk,
                     f1 \in ValidFrames \cup {BadChecksum(f) : f \in ValidFrames},
                     f2 \in ValidFrames \cup {<<>>}}

\* what find_and_parse_frame returned: found = FALSE stands for None
Returned(r) ==
    IF r.found
    THEN [found |-> TRUE, frame_type |-> r.frame.frame_type, address |-> r.frame.address,
          frame_code |-> r.frame.frame_code, parameters |-> r.frame.parameters,
          frame_len |-> r.frame.expected_total_length]
    ELSE [found |-> FALSE, frame_type |-> 0, address |-> 0, frame_code |-> 0,
          parameters |-> <<>>, frame_len |-> 0]

ReturnedNone == Returned([found |-> FALSE])

FramingInit ==
    /\ DispatcherInit
    /\ stream \in FramingStreams
    /\ dispatched = <<>>
    /\ buffer = <<>>
    /\ returned = <<>>
    /\ peer_frames = <<>>
    /\ chunks = <<>>
    /\ PeripheralInit

\* buffer.extend(data) with the next n bytes of the stream
extend(n) ==
    /\ n \in 1..Len(stream)
    /\ buffer' = buffer \o SubSeq(stream, 1, n)
    /\ stream' = SubSeq(stream, n + 1, Len(stream))
    /\ UNCHANGED <<connected, sent, write_error, rx_buffer, pending_responses, futures,
                   notification_callbacks, call, rx_pc, tasks, nresp, elapsed,
                   dispatched, returned, peer_frames, chunks, peripheral>>

\* one call of find_and_parse_frame(buffer)
find_frame ==
    /\ Len(returned) < MaxFinds
    /\ buffer' = find_and_parse_frame(buffer).buffer
    /\ returned' = Append(returned, Returned(find_and_parse_frame(buffer)))
    /\ UNCHANGED <<connected, sent, write_error, rx_buffer, pending_responses, futures,
                   notification_callbacks, call, rx_pc, tasks, nresp, elapsed,
                   stream, dispatched, peer_frames, chunks, peripheral>>

FramingNext ==
    \/ \E n \in 1..Len(stream) : extend(n)
    \/ find_frame

SpecFraming == FramingInit /\ [][FramingNext]_vars

\* b is junk followed by the first k bytes of a valid frame, header included,
\* and not by the whole frame
IncompleteFrame(b) ==
    \E j \in Junk, f \in ValidFrames :
        \E k \in HEADER_LENGTH..(Len(f) - 1) : b = j \o SubSeq(f, 1, k)

\* C14, as stated: find_and_parse_frame on junk followed by a proper prefix of a
\* valid frame returns None and leaves the buffer unchanged.
C14_IncompleteLeftUntouched ==
    [][(find_frame /\ IncompleteFrame(buffer))
       => /\ returned'[Len(returned')] = ReturnedNone
          /\ buffer' = buffer]_vars

\* b begins with the bytes head
StartsWith(b, head) == Len(b) >= Len(head) /\ SubSeq(b, 1, Len(head)) = head

\* C16: a call of find_and_parse_frame on junk without a header followed by a
\* valid frame returns the fields of that frame and its length, and removes
\* exactly the junk and the frame: what followed the frame is the buffer
\* afterwards.  On junk, F1, F2 the first call so returns F1 and leaves F2, the
\* second returns F2 and leaves the buffer empty.
C16_JunkThenFrames ==
    [][\A j \in Junk, x \in FrameFields :
          (find_frame /\ StartsWith(buffer, j \o Built(x)))
          => /\ returned'[Len(returned')] =
                    [found |-> TRUE, frame_type |-> x.frame_type, address |-> x.address,
                     frame_code |-> x.frame_code, parameters |-> x.parameters,
                     frame_len |-> Len(Built(x))]
             /\ buffer' = SliceFrom(buffer, Len(j) + Len(Built(x)))]_vars

\* two calls on junk, F1, F2 returned F1 and then F2, and the buffer is empty
C16_Witness ==
    /\ Len(returned) = 2
    /\ returned[1].found /\ returned[1].frame_type = FRAME_TYPE_RESPONSE
    /\ returned[2].found /\ returned[2].frame_type = FRAME_TYPE_NOTIFICATION
    /\ buffer = <<>>
    /\ stream = <<>>

\* C17: a call of find_and_parse_frame on a buffer whose first header starts a
\* complete frame with a wrong checksum returns None and removes the bytes up to
\* and including that header, and no other byte.
C17_BadChecksumResync ==
    [][\A j \in Junk, x \in FrameFields :
          (find_frame /\ StartsWith(buffer, j \o BadChecksum(Built(x))))
          => /\ returned'[Len(returned')] = ReturnedNone
             /\ buffer' = SliceFrom(buffer, Len(j) + HEADER_LENGTH)]_vars

\* the first call, on junk and a whole frame with a wrong checksum, returned
\* None and left the frame without its header
C17_Witness ==
    /\ returned = <<ReturnedNone>>
    /\ stream = <<>>
    /\ \E x \in FrameFields : buffer = SliceFrom(BadChecksum(Built(x)), HEADER_LENGTH)

(***************************************************************************)
(* uhf_rfid/core/dispatcher.py: the dispatcher on a byte stream.           *)
(*                                                                         *)
(* Two calls wait for their responses, callbacks are registered, and the   *)
(* transport reads what the peer sent in chunks cut at any byte.           *)
(***************************************************************************)
\* the chunks the transport reads the stream in
MaxChunks == 2

\* the frames the peer sends: the responses to the two calls, a tag
\* notification, a heartbeat without parameters, and a response whose checksum
\* is wrong
StreamFrames ==
    {[frame_type |-> FRAME_TYPE_RESPONSE, address |-> 0, frame_code |-> CMD_GET_VERSION,
      parameters |-> StatusTlv(STATUS_SUCCESS), bad |-> FALSE],
     [frame_type |-> FRAME_TYPE_RESPONSE, address |-> 0, frame_code |-> CMD_SET_PARAMETER,
      parameters |-> StatusTlv(STATUS_SUCCESS), bad |-> FALSE],
     [frame_type |-> FRAME_TYPE_NOTIFICATION, address |-> 0,
      frame_code |-> NOTIF_TAG_UPLOADED,
      parameters |-> <<TAG_SINGLE_TAG, 4, TAG_EPC, 2, 226, 0>>, bad |-> FALSE],
     [frame_type |-> FRAME_TYPE_NOTIFICATION, address |-> 0,
      frame_code |-> NOTIF_HEARTBEAT, parameters |-> <<>>, bad |-> FALSE],
     [frame_type |-> FRAME_TYPE_RESPONSE, address |-> 0, frame_code |-> CMD_GET_VERSION,
      parameters |-> StatusTlv(STATUS_SUCCESS), bad |-> TRUE]}

\* the bytes of the frame x as the peer sends it
OnWire(x) == IF x.bad THEN BadChecksum(Built(x)) ELSE Built(x)

\* what the peer sends: one frame, or two
PeerStreams ==
    {<<x>> : x \in StreamFrames} \cup {<<x, y>> : x \in StreamFrames, y \in StreamFrames}

\* the subscriptions: none, or callbacks for the two notification codes
Registrations ==
    {<<>>,
     (NOTIF_TAG_UPLOADED :> <<"cb1", "cb2">>) @@ (NOTIF_HEARTBEAT :> <<"cb3">>),
     (NOTIF_TAG_UPLOADED :> <<"cb1">>) @@ (NOTIF_HEARTBEAT :> <<"cb2", "cb1">>)}

\* the command the call c waits for: the first two calls wait, the others are
\* not made
StreamCode(c) == IF c = 1 THEN CMD_GET_VERSION ELSE IF c = 2 THEN CMD_SET_PARAMETER ELSE 0

\* The state after connect, send_command_wait_response(0x40) and
\* send_command_wait_response(0x48), both suspended in wait_for, and the
\* registrations of the callbacks.
StreamInit ==
    /\ connected = TRUE
    /\ sent = <<encode_command(CMD_GET_VERSION, 0, <<>>).data,
                encode_command(CMD_SET_PARAMETER, 0, <<>>).data>>
    /\ write_error = FALSE
    /\ rx_buffer = <<>>
    /\ pending_responses = (CMD_GET_VERSION :> 1) @@ (CMD_SET_PARAMETER :> 2)
    /\ futures = [c \in Calls |-> IF StreamCode(c) # 0 THEN PendingFuture ELSE NoFuture]
    /\ notification_callbacks \in Registrations
    /\ call = [c \in Calls |->
                  IF StreamCode(c) # 0
                  THEN [pc |-> "waiting", command_code |-> StreamCode(c),
                        full_frame |-> encode_command(StreamCode(c), 0, <<>>).data,
                        outcome |-> NoOutcome]
                  ELSE IdleCall]
    /\ rx_pc = "idle"
    /\ tasks = <<>>
    /\ nresp = [c \in Calls |-> 0]
    /\ elapsed = {}
    /\ peer_frames \in PeerStreams
    /\ stream = Concat([i \in 1..Len(peer_frames) |-> OnWire(peer_frames[i])])
    /\ dispatched = <<>>
    /\ buffer = <<>>
    /\ returned = <<>>
    /\ chunks = <<>>
    /\ PeripheralInit

\* the state after _process_buffer ran with the outcome r, with the frames it
\* routed added to the history
Recorded(r) ==
    /\ Received(r)
    /\ dispatched' = dispatched \o r.frames

\* _read_data_loop of the transport reads the next n bytes of the stream and
\* awaits _data_received_handler(data)
read_data_loop(n) ==
    /\ rx_pc = "idle"
    /\ n \in 1..Len(stream)
    /\ Len(chunks) + 1 < MaxChunks \/ n = Len(stream)
    /\ stream' = SubSeq(stream, n + 1, Len(stream))
    /\ chunks' = Append(chunks, n)
    /\ UNCHANGED <<connected, sent, write_error, notification_callbacks, call, elapsed,
                   buffer, returned, peer_frames, peripheral>>
    /\ Recorded(process_buffer(rx_buffer \o SubSeq(stream, 1, n), pending_responses,
                               futures, notification_callbacks, <<>>))

\* all callbacks of the notification are done: _process_buffer loops again
stream_gather_done ==
    /\ rx_pc = "gather"
    /\ tasks = <<>>
    /\ UNCHANGED <<connected, sent, write_error, notification_callbacks, call, elapsed,
                   stream, buffer, returned, peer_frames, chunks, peripheral>>
    /\ Recorded(process_buffer(rx_buffer, pending_responses, futures,
                               notification_callbacks, <<>>))

StreamNext ==
    \/ \E n \in 1..Len(stream) : read_data_loop(n)
    \/ \E i \in 1..Len(tasks) : callback_done(i)
    \/ stream_gather_done
    \/ \E c \in Calls : resume(c)

SpecStream == StreamInit /\ [][StreamNext]_vars

\* the peer sent the one valid response x, to the call c
OneResponse(x, c) ==
    /\ peer_frames = <<x>>
    /\ x.frame_type = FRAME_TYPE_RESPONSE
    /\ ~x.bad
    /\ StreamCode(c) = x.frame_code

\* C15, as stated: a valid response read in two chunks cut at any byte is put
\* together again: after the first chunk the buffer holds that chunk, after the
\* second the future of the waiting call holds the parsed map, the frame was
\* routed once and the buffer is empty.
C15_FragmentsReassembled ==
    \A x \in StreamFrames, c \in Calls :
        OneResponse(x, c) =>
            /\ (Len(chunks) = 1 /\ chunks[1] < Len(Built(x)))
               => rx_buffer = SubSeq(Built(x), 1, chunks[1])
            /\ (Len(chunks) = 2)
               => /\ futures[c] = SetResult(StatusMap(STATUS_SUCCESS))
                  /\ Len(dispatched) = 1
                  /\ rx_buffer = <<>>

\* the frame x was extracted, parsed and routed
Dispatched(x) ==
    \E i \in 1..Len(dispatched) :
        dispatched[i] = [frame_type |-> x.frame_type, address |-> x.address,
                         frame_code |-> x.frame_code, parameters |-> x.parameters,
                         ok |-> TRUE]

\* C18, as stated: once the buffer has received a frame with a wrong checksum
\* followed by a whole valid frame, in one chunk, the valid frame is routed
\* without any further byte.
C18_BadFrameDoesNotBlock ==
    (/\ Len(peer_frames) = 2
     /\ peer_frames[1].bad
     /\ ~peer_frames[2].bad
     /\ chunks = <<Len(OnWire(peer_frames[1])) + Len(OnWire(peer_frames[2]))>>)
    => Dispatched(peer_frames[2])

\* the entry of the history for the valid frame x
Entry(x) ==
    [frame_type |-> x.frame_type, address |-> x.address, frame_code |-> x.frame_code,
     parameters |-> x.parameters, ok |-> TRUE]

\* the peer sent two valid frames
TwoValidFrames == Len(peer_frames) = 2 /\ ~peer_frames[1].bad /\ ~peer_frames[2].bad

\* everything the peer sent was read and _process_buffer is not waiting for
\* callbacks
AllRead == stream = <<>> /\ rx_pc = "idle"

CutAt(i) == SumBytes(SubSeq(chunks, 1, i))

\* a chunk ended k bytes into the stream of the frames a, b, at a place where
\* the bytes of the unfinished frame read so far number MIN_FRAME_LENGTH or more
CutsFrame(k, a, b) ==
    \/ MIN_FRAME_LENGTH <= k /\ k < Len(a)
    \/ Len(a) + MIN_FRAME_LENGTH <= k /\ k < Len(a) + Len(b)

StreamCallbacks == {"cb1", "cb2", "cb3"}

\* callback is registered for frame_code
Registered(callback, frame_code) ==
    /\ frame_code \in DOMAIN notification_callbacks
    /\ \E k \in 1..Len(notification_callbacks[frame_code]) :
          notification_callbacks[frame_code][k] = callback

\* the call callback(FRAME_TYPE_NOTIFICATION, address, frame_code, parsed_params)
\* for the notification x
Invocation(callback, x) ==
    [cb |-> callback, frame_type |-> FRAME_TYPE_NOTIFICATION, address |-> x.address,
     frame_code |-> x.frame_code,
     params |-> PyDict(parse_parameters(x.frame_code, x.frame_type, x.parameters).tlvs)]

\* C20: when a notification frame of code c is routed, every callback registered
\* for c is invoked exactly once, with (FRAME_TYPE_NOTIFICATION, address, c, the
\* parsed parameters), and a callback not registered for c is not invoked.
C20_NotificationFanOut ==
    [][\A i \in (Len(dispatched) + 1)..Len(dispatched') :
          (dispatched'[i].frame_type = FRAME_TYPE_NOTIFICATION /\ dispatched'[i].ok) =>
              \A callback \in StreamCallbacks :
                  /\ Cardinality({j \in 1..Len(tasks') :
                                     /\ tasks'[j].cb = callback
                                     /\ tasks'[j].frame_code = dispatched'[i].frame_code})
                        = IF Registered(callback, dispatched'[i].frame_code) THEN 1 ELSE 0
                  /\ Registered(callback, dispatched'[i].frame_code)
                        => \E j \in 1..Len(tasks') :
                              tasks'[j] = Invocation(callback, dispatched'[i])
                  /\ ~Registered(callback, dispatched'[i].frame_code)
                        => \A j \in 1..Len(tasks') : tasks'[j].cb # callback]_vars

\* the tag notification was routed while cb1 and cb2 were registered for it and
\* cb3 for the heartbeat only: the calls of cb1 and cb2 are in progress
C20_Witness ==
    /\ notification_callbacks = (NOTIF_TAG_UPLOADED :> <<"cb1", "cb2">>) @@ (NOTIF_HEARTBEAT :> <<"cb3">>)
    /\ rx_pc = "gather"
    /\ Len(dispatched) > 0
    /\ dispatched[Len(dispatched)].frame_code = NOTIF_TAG_UPLOADED
    /\ tasks = [j \in 1..2 |->
                  [cb |-> <<"cb1", "cb2">>[j], frame_type |-> FRAME_TYPE_NOTIFICATION,
                   address |-> 0, frame_code |-> NOTIF_TAG_UPLOADED,
                   params |-> PyDict(TAG_SINGLE_TAG :> PyDict(TAG_EPC :> PyStr(<<"E", "2", "0", "0">>)))]]

(***************************************************************************)
(* uhf_rfid/core/dispatcher.py: the subscriptions, changed while           *)
(* notifications arrive.  The calls made are recorded in log.              *)
(***************************************************************************)
MaxOps == 2

\* list.remove(x): the list without its first x
ListRemove(list, x) ==
    LET i == CHOOSE i \in 1..Len(list) : list[i] = x /\ \A j \in 1..(i - 1) : list[j] # x
    IN SubSeq(list, 1, i - 1) \o SubSeq(list, i + 1, Len(list))

\* x in list
ListHas(list, x) == \E i \in 1..Len(list) : list[i] = x

\* a registration that appends without looking
register_appends(cbs, frame_code, callback) ==
    DictSet(cbs, frame_code, Append(callbacks_of(cbs, frame_code), callback))

\* a registration that puts the new callback first
register_prepends(cbs, frame_code, callback) ==
    IF ListHas(callbacks_of(cbs, frame_code), callback)
    THEN cbs
    ELSE DictSet(cbs, frame_code, <<callback>> \o callbacks_of(cbs, frame_code))

\* register_notification_callback: the subscriptions afterwards
register(cbs, frame_code, callback) ==
    IF ListHas(callbacks_of(cbs, frame_code), callback)
    THEN cbs
    ELSE DictSet(cbs, frame_code, Append(callbacks_of(cbs, frame_code), callback))

\* an unregistration that drops every callback of the code
unregister_drops_code(cbs, frame_code, callback) ==
    IF frame_code \in DOMAIN cbs THEN DictDel(cbs, frame_code) ELSE cbs

\* unregister_notification_callback: the subscriptions afterwards
unregister(cbs, frame_code, callback) ==
    IF frame_code \in DOMAIN cbs /\ ListHas(cbs[frame_code], callback)
    THEN IF ListRemove(cbs[frame_code], callback) = <<>>
         THEN DictDel(cbs, frame_code)
         ELSE DictSet(cbs, frame_code, ListRemove(cbs[frame_code], callback))
    ELSE cbs

\* the list of a code after unregister_callback_from_all(callback)
ListWithout(list, callback) ==
    IF ListHas(list, callback) THEN ListRemove(list, callback) ELSE list

\* unregister_callback_from_all: the subscriptions afterwards
unregister_callback_from_all(cbs, callback) ==
    IF {k \in DOMAIN cbs : ListWithout(cbs[k], callback) # <<>>} = {}
    THEN <<>>
    ELSE [k \in {k \in DOMAIN cbs : ListWithout(cbs[k], callback) # <<>>} |->
             ListWithout(cbs[k], callback)]

SubsCodes == {NOTIF_TAG_UPLOADED, NOTIF_HEARTBEAT}

SubsCallbacks == {"cb1", "cb2"}

\* the calls recorded in the log
CallsMade == {i \in 1..Len(log) : log[i].op \in {"register", "unregister", "unregister_from_all"}}

\* a _handle_notification that holds _callback_lock until its gather returns
locked_while_callbacks_run == rx_pc = "gather"

\* _callback_lock is held at a point where tasks are switched: no "async with
\* self._callback_lock" block awaits inside, and _handle_notification leaves its
\* block before it creates the tasks
callback_lock_locked == FALSE

\* the application, or a callback while it runs, makes the call op: its effect
\* on the subscriptions is cbs
Called(op, frame_code, callback, cbs) ==
    /\ Cardinality(CallsMade) < MaxOps
    /\ ~callback_lock_locked
    /\ notification_callbacks' = cbs
    /\ log' = Append(log, [op |-> op, frame_code |-> frame_code, callback |-> callback,
                           running |-> Len(tasks)])
    /\ UNCHANGED <<connected, sent, write_error, rx_buffer, pending_responses, futures,
                   call, rx_pc, tasks, nresp, elapsed, stream, dispatched, buffer,
                   returned, peer_frames, chunks, transport>>

call_register(frame_code, callback) ==
    Called("register", frame_code, callback,
           register(notification_callbacks, frame_code, callback))

call_unregister(frame_code, callback) ==
    Called("unregister", frame_code, callback,
           unregister(notification_callbacks, frame_code, callback))

call_unregister_from_all(callback) ==
    Called("unregister_from_all", 0, callback,
           unregister_callback_from_all(notification_callbacks, callback))

\* a gather from which the exception of a task propagates: the other tasks are
\* dropped and the waiting calls are failed
callback_raises_propagates(i) ==
    /\ rx_pc = "gather"
    /\ i \in 1..Len(tasks)
    /\ tasks' = <<>>
    /\ futures' = [c \in Calls |-> IF futures[c].state = "pending"
                                    THEN SetException(Exc("UhfRfidError", -1, "callback"))
                                    ELSE futures[c]]
    /\ log' = Append(log, [op |-> "raised", frame_code |-> tasks[i].frame_code,
                           callback |-> tasks[i].cb, running |-> Len(tasks)])
    /\ UNCHANGED <<connected, sent, write_error, rx_buffer, pending_responses,
                   notification_callbacks, call, rx_pc, nresp, elapsed, stream,
                   dispatched, buffer, returned, peer_frames, chunks, transport>>

\* the callback task i ends with an exception: gather(return_exceptions=True)
\* takes the exception as the result of the task
callback_raises(i) ==
    /\ rx_pc = "gather"
    /\ i \in 1..Len(tasks)
    /\ tasks' = SubSeq(tasks, 1, i - 1) \o SubSeq(tasks, i + 1, Len(tasks))
    /\ log' = Append(log, [op |-> "raised", frame_code |-> tasks[i].frame_code,
                           callback |-> tasks[i].cb, running |-> Len(tasks)])
    /\ UNCHANGED <<connected, sent, write_error, rx_buffer, pending_responses, futures,
                   notification_callbacks, call, rx_pc, nresp, elapsed, stream,
                   dispatched, buffer, returned, peer_frames, chunks, transport>>

\* the frames the peer sends: the two notifications and the response to call 1
SubsFrames == {x \in StreamFrames : ~x.bad /\ x.frame_code # CMD_SET_PARAMETER}

SubsNotifications == {x \in SubsFrames : x.frame_type = FRAME_TYPE_NOTIFICATION}

\* every callback registered for every code, in different orders
FullyRegistered ==
    (NOTIF_TAG_UPLOADED :> <<"cb1", "cb2">>) @@ (NOTIF_HEARTBEAT :> <<"cb2", "cb1">>)

\* As StreamInit, with no subscription or with every subscription, and with the
\* peer sending a notification and one more frame, each read as one chunk.
SubsInit ==
    /\ connected = TRUE
    /\ sent = <<encode_command(CMD_GET_VERSION, 0, <<>>).data,
                encode_command(CMD_SET_PARAMETER, 0, <<>>).data>>
    /\ write_error = FALSE
    /\ rx_buffer = <<>>
    /\ pending_responses = (CMD_GET_VERSION :> 1) @@ (CMD_SET_PARAMETER :> 2)
    /\ futures = [c \in Calls |-> IF StreamCode(c) # 0 THEN PendingFuture ELSE NoFuture]
    /\ notification_callbacks \in {<<>>, FullyRegistered}
    /\ call = [c \in Calls |->
                  IF StreamCode(c) # 0
                  THEN [pc |-> "waiting", command_code |-> StreamCode(c),
                        full_frame |-> encode_command(StreamCode(c), 0, <<>>).data,
                        outcome |-> NoOutcome]
                  ELSE IdleCall]
    /\ rx_pc = "idle"
    /\ tasks = <<>>
    /\ nresp = [c \in Calls |-> 0]
    /\ elapsed = {}
    /\ peer_frames \in {<<x, y>> : x \in SubsNotifications, y \in SubsFrames}
    /\ stream = Concat([i \in 1..Len(peer_frames) |-> OnWire(peer_frames[i])])
    /\ dispatched = <<>>
    /\ buffer = <<>>
    /\ returned = <<>>
    /\ chunks = <<>>
    /\ PeripheralInit

SubsNext ==
    \/ \E frame_code \in SubsCodes, callback \in SubsCallbacks : call_register(frame_code, callback)
    \/ \E frame_code \in SubsCodes, callback \in SubsCallbacks : call_unregister(frame_code, callback)
    \/ \E callback \in SubsCallbacks : call_unregister_from_all(callback)
    \/ \E k \in {Len(chunks) + 1} \cap DOMAIN peer_frames : read_data_loop(Len(OnWire(peer_frames[k])))
    \/ \E i \in 1..Len(tasks) : callback_done(i)
    \/ \E i \in 1..Len(tasks) : callback_raises(i)
    \/ stream_gather_done

SpecSubs == SubsInit /\ [][SubsNext]_vars

\* C21: a (code, callback) pair is in the subscriptions at most once, whatever
\* calls of register and unregister were made, and the tasks created for one
\* notification hold at most one call of a callback.
C21_NoDuplicateRegistration ==
    /\ \A frame_code \in DOMAIN notification_callbacks :
          \A i, j \in 1..Len(notification_callbacks[frame_code]) :
              notification_callbacks[frame_code][i] = notification_callbacks[frame_code][j]
                  => i = j
    /\ \A i, j \in 1..Len(tasks) : tasks[i].cb = tasks[j].cb => i = j

\* cb1 was registered twice for the tag notification, which then arrived: one
\* call of cb1 is in progress
C21_Witness ==
    /\ Len(log) = 2
    /\ log[1] = [op |-> "register", frame_code |-> NOTIF_TAG_UPLOADED, callback |-> "cb1",
                 running |-> 0]
    /\ log[2] = log[1]
    /\ notification_callbacks = (NOTIF_TAG_UPLOADED :> <<"cb1">>)
    /\ rx_pc = "gather"
    /\ Len(tasks) = 1
    /\ tasks[1].cb = "cb1"
    /\ tasks[1].frame_code = NOTIF_TAG_UPLOADED

\* the step is the call op(frame_code, callback)
StepCalls(op) == Len(log') = Len(log) + 1 /\ log'[Len(log')].op = op

\* the step is one in which _handle_notification creates its tasks
StepCreatesTasks == tasks = <<>> /\ tasks' # <<>>

\* C22: unregister(code, cb) removes the pair (code, cb) and no other: cb stays
\* registered under the other codes and the other callbacks stay registered
\* under code, in their order.  unregister_from_all(cb) removes cb from every
\* code and no other callback.  A notification that arrives later starts only
\* callbacks that are registered for its code.
C22_UnregisterRemovesExactly ==
    /\ [][StepCalls("unregister") =>
            \A frame_code \in SubsCodes :
                callbacks_of(notification_callbacks', frame_code) =
                    IF /\ frame_code = log'[Len(log')].frame_code
                       /\ ListHas(callbacks_of(notification_callbacks, frame_code),
                                  log'[Len(log')].callback)
                    THEN ListRemove(callbacks_of(notification_callbacks, frame_code),
                                    log'[Len(log')].callback)
                    ELSE callbacks_of(notification_callbacks, frame_code)]_vars
    /\ [][StepCalls("unregister_from_all") =>
            \A frame_code \in SubsCodes :
                /\ ~ListHas(callbacks_of(notification_callbacks', frame_code),
                            log'[Len(log')].callback)
                /\ \A callback \in SubsCallbacks \ {log'[Len(log')].callback} :
                      Registered(callback, frame_code)' = Registered(callback, frame_code)]_vars
    /\ [][StepCreatesTasks =>
            \A j \in 1..Len(tasks') : Registered(tasks'[j].cb, tasks'[j].frame_code)]_vars

\* with every callback registered for every code, unregister(0x80, cb1) was
\* called and the tag notification arrived: cb2 alone is called, and cb1 is still
\* registered for the heartbeat
C22_Witness ==
    /\ log = <<[op |-> "unregister", frame_code |-> NOTIF_TAG_UPLOADED, callback |-> "cb1",
                running |-> 0]>>
    /\ notification_callbacks =
           (NOTIF_TAG_UPLOADED :> <<"cb2">>) @@ (NOTIF_HEARTBEAT :> <<"cb2", "cb1">>)
    /\ rx_pc = "gather"
    /\ Len(tasks) = 1
    /\ tasks[1].cb = "cb2"
    /\ tasks[1].frame_code = NOTIF_TAG_UPLOADED

\* C23: the callbacks of one notification are started in the order in which
\* they were registered: register puts a new callback behind those already
\* registered for the code (unregister keeps the order of the others, C22), and
\* _handle_notification creates the tasks in the order of the list.
C23_RegistrationOrder ==
    /\ [][StepCalls("register") =>
            \A frame_code \in SubsCodes :
                callbacks_of(notification_callbacks', frame_code) =
                    IF /\ frame_code = log'[Len(log')].frame_code
                       /\ ~ListHas(callbacks_of(notification_callbacks, frame_code),
                                   log'[Len(log')].callback)
                    THEN Append(callbacks_of(notification_callbacks, frame_code),
                                log'[Len(log')].callback)
                    ELSE callbacks_of(notification_callbacks, frame_code)]_vars
    /\ [][StepCreatesTasks =>
            [j \in 1..Len(tasks') |-> tasks'[j].cb]
                = callbacks_of(notification_callbacks, tasks'[1].frame_code)]_vars

\* cb2 and then cb1 were registered for the tag notification, which then
\* arrived: the tasks are those of cb2 and cb1, in this order
C23_Witness ==
    /\ Len(log) = 2
    /\ log[1] = [op |-> "register", frame_code |-> NOTIF_TAG_UPLOADED, callback |-> "cb2",
                 running |-> 0]
    /\ log[2] = [op |-> "register", frame_code |-> NOTIF_TAG_UPLOADED, callback |-> "cb1",
                 running |-> 0]
    /\ rx_pc = "gather"
    /\ [j \in 1..Len(tasks) |-> tasks[j].cb] = <<"cb2", "cb1">>
    /\ tasks[1].frame_code = NOTIF_TAG_UPLOADED

\* C24: a callback that raises affects nothing else: the tasks of the other
\* callbacks of the frame stay as they are and run on, no future is completed
\* or failed by it, and once the callbacks of the frame have ended the receive
\* loop routes the frames behind it, a response behind it resolving its waiter.
C24_CallbackErrorsIsolated ==
    /\ [][StepCalls("raised") =>
            /\ Len(tasks') = Len(tasks) - 1
            /\ \A j \in 1..Len(tasks') : \E k \in 1..Len(tasks) : tasks'[j] = tasks[k]
            /\ futures' = futures
            /\ pending_responses' = pending_responses
            /\ rx_buffer' = rx_buffer]_vars
    /\ [](AllRead =>
            /\ dispatched = [k \in 1..Len(peer_frames) |-> Entry(peer_frames[k])]
            /\ \A c \in Calls :
                  futures[c].state = IF /\ StreamCode(c) # 0
                                        /\ \E k \in 1..Len(peer_frames) :
                                              /\ peer_frames[k].frame_type = FRAME_TYPE_RESPONSE
                                              /\ peer_frames[k].frame_code = StreamCode(c)
                                     THEN "result"
                                     ELSE IF StreamCode(c) # 0 THEN "pending" ELSE "none")

\* of the two callbacks of the tag notification cb1 raised while cb2 was still
\* running; cb2 ended, and the response behind the notification resolved call 1
C24_Witness ==
    /\ \E i \in 1..Len(log) :
          log[i] = [op |-> "raised", frame_code |-> NOTIF_TAG_UPLOADED, callback |-> "cb1",
                    running |-> 2]
    /\ AllRead
    /\ peer_frames[1].frame_code = NOTIF_TAG_UPLOADED
    /\ peer_frames[2].frame_type = FRAME_TYPE_RESPONSE
    /\ Len(dispatched) = 2
    /\ futures[1].state = "result"
    /\ futures[2].state = "pending"

\* _read_data_loop can read: the peer has sent bytes and the loop is not inside
\* "await self._data_received_callback(data)"
CanRead == rx_pc = "idle" /\ stream # <<>>

\* C25, as stated: the receive loop is not blocked by callbacks: while a
\* callback of an earlier notification has not finished and bytes of the peer
\* wait to be read, the reader task is able to read them.
C25_CallbacksNeverBlock == tasks # <<>> /\ stream # <<>> => CanRead

MaxTransportOps == 3

MaxAdds == 2

\* the tasks of the application that call connect and disconnect; task 0 is the
\* task the reader loop creates for _handle_remote_disconnect or
\* _handle_read_error
TransportUsers == TransportProcs \ {0}

dispatcher_vars ==
    <<sent, write_error, rx_buffer, pending_responses, futures, notification_callbacks,
      call, rx_pc, tasks, nresp, elapsed, stream, dispatched, buffer, returned,
      peer_frames, chunks, log, kind, reader_state, scope>>

\* what the reader task reads: a chunk, the end of the stream, or an error
Item(item, n) == [item |-> item, n |-> n]

ReaderTask(pc, data, cancel) == [pc |-> pc, data |-> data, cancel |-> cancel]

\* self._reader_task and not self._reader_task.done()
ReaderRunning == reader_task # 0 /\ readers[reader_task].pc # "done"

\* the reader tasks that have not ended
Running == {i \in 1..Len(readers) : readers[i].pc # "done"}

\* _start_reader: a task is created unless one is running
start_reader ==
    IF ReaderRunning
    THEN [readers |-> readers, reader_task |-> reader_task]
    ELSE [readers |-> Append(readers, ReaderTask("created", 0, FALSE)),
          reader_task |-> Len(readers) + 1]

\* a call returns or raises
Completes(p, op) ==
    /\ procs' = [procs EXCEPT ![p] = "idle"]
    /\ completed' = IF p = 0 THEN completed ELSE Append(completed, op)

\* a task of the application calls connect()
connect_call(p) ==
    /\ procs[p] = "idle"
    /\ Len(called) < MaxTransportOps
    /\ procs' = [procs EXCEPT ![p] = "c_lock"]
    /\ called' = Append(called, "connect")
    /\ UNCHANGED <<connected, readers, reader_task, inbox, event, delivered, nadded, lock,
                   completed, read_failed, dispatcher_vars>>

\* connect() gets _connection_lock: it returns if connected, else it awaits the
\* connection (mock: sleep(_connection_delay); tcp: open_connection)
connect_enter(p) ==
    /\ procs[p] = "c_lock"
    /\ lock = -1
    /\ IF connected
       THEN Completes(p, "connect") /\ UNCHANGED lock
       ELSE /\ procs' = [procs EXCEPT ![p] = "c_open"]
            /\ lock' = p
            /\ UNCHANGED completed
    /\ UNCHANGED <<connected, readers, reader_task, inbox, event, delivered, nadded,
                   called, read_failed, dispatcher_vars>>

\* the connection is there: _connected = True, _start_reader(), the lock is
\* released.  A tcp or serial connection starts with an empty stream.
connect_done(p) ==
    /\ procs[p] = "c_open"
    /\ connected' = TRUE
    /\ readers' = start_reader.readers
    /\ reader_task' = start_reader.reader_task
    /\ lock' = -1
    /\ inbox' = IF kind = "mock" THEN inbox ELSE <<>>
    /\ read_failed' = FALSE
    /\ Completes(p, "connect")
    /\ UNCHANGED <<event, delivered, nadded, called, dispatcher_vars>>

\* tcp, serial: the connection attempt raises; connect() raises ConnectionError
connect_fail(p) ==
    /\ procs[p] = "c_open"
    /\ kind # "mock"
    /\ connected' = FALSE
    /\ lock' = -1
    /\ Completes(p, "connect")
    /\ UNCHANGED <<readers, reader_task, inbox, event, delivered, nadded, called,
                   read_failed, dispatcher_vars>>

\* a task of the application calls disconnect()
disconnect_call(p) ==
    /\ procs[p] = "idle"
    /\ p # 0
    /\ Len(called) < MaxTransportOps
    /\ procs' = [procs EXCEPT ![p] = "d_lock"]
    /\ called' = Append(called, "disconnect")
    /\ UNCHANGED <<connected, readers, reader_task, inbox, event, delivered, nadded, lock,
                   completed, read_failed, dispatcher_vars>>

\* what disconnect() does once the reader task is stopped: tcp and serial close
\* the writer and await wait_closed(); mock sets _connected = False and returns
AfterStopReader(p) ==
    IF kind = "mock"
    THEN /\ connected' = FALSE
         /\ lock' = -1
         /\ Completes(p, "disconnect")
    ELSE /\ procs' = [procs EXCEPT ![p] = "d_close"]
         /\ lock' = p
         /\ UNCHANGED <<connected, completed>>

\* a _stop_reader that cancels the reader task and does not await it
disconnect_no_await(p) ==
    /\ procs[p] = "d_lock"
    /\ lock = -1
    /\ IF ~connected /\ ~ReaderRunning
       THEN /\ Completes(p, "disconnect")
            /\ UNCHANGED <<connected, readers, reader_task, lock>>
       ELSE /\ readers' = IF ReaderRunning
                          THEN [readers EXCEPT ![reader_task].cancel = TRUE]
                          ELSE readers
            /\ reader_task' = 0
            /\ AfterStopReader(p)
    /\ UNCHANGED <<inbox, event, delivered, nadded, called, read_failed, dispatcher_vars>>

\* disconnect() gets _connection_lock: it returns if there is nothing to stop;
\* else _stop_reader() cancels a running reader task and awaits it
disconnect_enter(p) ==
    /\ procs[p] = "d_lock"
    /\ lock = -1
    /\ IF ~connected /\ ~ReaderRunning
       THEN /\ Completes(p, "disconnect")
            /\ UNCHANGED <<connected, readers, reader_task, lock>>
       ELSE IF ReaderRunning
       THEN /\ readers' = [readers EXCEPT ![reader_task].cancel = TRUE]
            /\ procs' = [procs EXCEPT ![p] = "d_await"]
            /\ lock' = p
            /\ UNCHANGED <<connected, reader_task, completed>>
       ELSE /\ AfterStopReader(p)
            /\ UNCHANGED <<readers, reader_task>>
    /\ UNCHANGED <<inbox, event, delivered, nadded, called, read_failed, dispatcher_vars>>

\* "await self._reader_task" returns: the reader task has ended
reader_stopped(p) ==
    /\ procs[p] = "d_await"
    /\ ~ReaderRunning
    /\ reader_task' = 0
    /\ AfterStopReader(p)
    /\ UNCHANGED <<readers, inbox, event, delivered, nadded, called, read_failed,
                   dispatcher_vars>>

\* tcp, serial: the writer is closed: _connected = False
writer_closed(p) ==
    /\ procs[p] = "d_close"
    /\ connected' = FALSE
    /\ lock' = -1
    /\ Completes(p, "disconnect")
    /\ UNCHANGED <<readers, reader_task, inbox, event, delivered, nadded, called,
                   read_failed, dispatcher_vars>>

\* MockTransport._read_data_loop from "while self._response_queue" on, up to the
\* next await: the next chunk is taken and the loop sleeps _receive_delay, or
\* the event is cleared and the loop waits for it
MockInner(conn, ev, q) ==
    IF q # <<>>
    THEN [pc |-> "sleep", data |-> Head(q).n, inbox |-> Tail(q), event |-> ev]
    ELSE [pc |-> IF conn THEN "wait" ELSE "done", data |-> 0, inbox |-> q, event |-> FALSE]

\* a loop with "if self._response_queue" for "while self._response_queue": after
\* a chunk it clears the event without looking at the queue
clear_after_one_chunk(conn, ev, q) ==
    [pc |-> IF conn THEN "wait" ELSE "done", data |-> 0, inbox |-> q, event |-> FALSE]

\* MockTransport._read_data_loop after the sink has returned: back to "while
\* self._response_queue"
MockAfterSink(conn, ev, q) == MockInner(conn, ev, q)

\* MockTransport._read_data_loop from "while self._connected" on, up to the next
\* await; Event.wait() returns at once when the event is set
MockTop(conn, ev, q) ==
    IF ~conn THEN [pc |-> "done", data |-> 0, inbox |-> q, event |-> ev]
    ELSE IF ~ev THEN [pc |-> "wait", data |-> 0, inbox |-> q, event |-> ev]
    ELSE MockInner(conn, ev, q)

\* the reader loop of tcp and serial from "while self._connected and
\* self._reader" on: it awaits read()
StreamTop(conn, ev, q) ==
    [pc |-> IF conn THEN "read" ELSE "done", data |-> 0, inbox |-> q, event |-> ev]

LoopTop(conn, ev, q) ==
    IF kind = "mock" THEN MockTop(conn, ev, q) ELSE StreamTop(conn, ev, q)

\* the reader task i goes on to r
ReaderMoves(i, r) ==
    /\ readers' = [readers EXCEPT ![i] = ReaderTask(r.pc, r.data, FALSE)]
    /\ inbox' = r.inbox
    /\ event' = r.event

\* the reader task i runs for the first time, or wakes from Event.wait()
reader_loop(i) ==
    /\ i \in 1..Len(readers)
    /\ ~readers[i].cancel
    /\ \/ readers[i].pc = "created"
       \/ readers[i].pc = "wait" /\ event
    /\ ReaderMoves(i, LoopTop(connected, event, inbox))
    /\ UNCHANGED <<connected, reader_task, delivered, nadded, lock, procs, called,
                   completed, read_failed, dispatcher_vars>>

\* mock: sleep(_receive_delay) is over: the chunk is given to the sink, or the
\* loop ends because the transport is no longer connected
reader_slept(i) ==
    /\ i \in 1..Len(readers)
    /\ ~readers[i].cancel
    /\ readers[i].pc = "sleep"
    /\ IF connected
       THEN /\ readers' = [readers EXCEPT ![i].pc = "sink"]
            /\ delivered' = Append(delivered, readers[i].data)
            /\ UNCHANGED event
       ELSE /\ readers' = [readers EXCEPT ![i] = ReaderTask("done", 0, FALSE)]
            /\ event' = FALSE
            /\ UNCHANGED delivered
    /\ UNCHANGED <<connected, reader_task, inbox, nadded, lock, procs, called, completed,
                   read_failed, dispatcher_vars>>

\* the sink returns, or raises an Exception that the loop logs: the loop goes on
reader_sink_done(i) ==
    /\ i \in 1..Len(readers)
    /\ ~readers[i].cancel
    /\ readers[i].pc = "sink"
    /\ ReaderMoves(i, IF kind = "mock" THEN MockAfterSink(connected, event, inbox)
                      ELSE StreamTop(connected, event, inbox))
    /\ UNCHANGED <<connected, reader_task, delivered, nadded, lock, procs, called,
                   completed, read_failed, dispatcher_vars>>

\* the task _handle_remote_disconnect or _handle_read_error that the reader loop
\* creates when it is still connected
HandlerCreated == IF connected THEN [procs EXCEPT ![0] = "pending"] ELSE procs

\* tcp, serial: read() returns: a chunk is given to the sink; at end-of-stream or
\* on an error the loop creates the task that handles it, and ends
reader_read(i) ==
    /\ i \in 1..Len(readers)
    /\ ~readers[i].cancel
    /\ readers[i].pc = "read"
    /\ inbox # <<>>
    /\ inbox' = Tail(inbox)
    /\ IF Head(inbox).item # "chunk"
       THEN /\ readers' = [readers EXCEPT ![i] = ReaderTask("done", 0, FALSE)]
            /\ procs' = HandlerCreated
            /\ read_failed' = TRUE
            /\ UNCHANGED delivered
       ELSE /\ readers' = [readers EXCEPT ![i] = ReaderTask("sink", Head(inbox).n, FALSE)]
            /\ delivered' = Append(delivered, Head(inbox).n)
            /\ UNCHANGED <<procs, read_failed>>
    /\ UNCHANGED <<connected, reader_task, event, nadded, lock, called, completed,
                   dispatcher_vars>>

\* the cancelled reader task gets CancelledError where it is suspended, and ends
reader_cancelled(i) ==
    /\ i \in 1..Len(readers)
    /\ readers[i].cancel
    /\ readers[i].pc # "done"
    /\ readers' = [readers EXCEPT ![i] = ReaderTask("done", 0, FALSE)]
    /\ UNCHANGED <<connected, reader_task, inbox, event, delivered, nadded, lock, procs,
                   called, completed, read_failed, dispatcher_vars>>

\* the task created at end-of-stream or on a read error runs.  tcp: "if
\* self._connected: await self.disconnect()".  serial: "if self._connected and
\* self._status != ...": SerialTransport has no attribute _status, the task ends
\* with AttributeError.
handle_read_end ==
    /\ procs[0] = "pending"
    /\ procs' = [procs EXCEPT ![0] = IF connected /\ kind = "tcp" THEN "d_lock" ELSE "ended"]
    /\ UNCHANGED <<connected, readers, reader_task, inbox, event, delivered, nadded, lock,
                   called, completed, read_failed, dispatcher_vars>>

\* mock: add_response(frame): the chunk is queued and the event is set
add_response ==
    /\ kind = "mock"
    /\ nadded < MaxAdds
    /\ nadded' = nadded + 1
    /\ inbox' = Append(inbox, Item("chunk", nadded + 1))
    /\ event' = TRUE
    /\ UNCHANGED <<connected, readers, reader_task, delivered, lock, procs, called,
                   completed, read_failed, dispatcher_vars>>

\* tcp, serial: the peer sends a chunk, or ends the stream, or the link breaks
peer_sends(item) ==
    /\ kind # "mock"
    /\ connected
    /\ \A k \in 1..Len(inbox) : inbox[k].item = "chunk"
    /\ ~read_failed
    /\ IF item = "chunk"
       THEN /\ nadded < MaxAdds
            /\ nadded' = nadded + 1
            /\ inbox' = Append(inbox, Item("chunk", nadded + 1))
       ELSE /\ procs[0] = "idle"
            /\ inbox' = Append(inbox, Item(item, 0))
            /\ UNCHANGED nadded
    /\ UNCHANGED <<connected, readers, reader_task, event, delivered, lock, procs, called,
                   completed, read_failed, dispatcher_vars>>

\* the variables of the transport
transport_vars ==
    <<connected, readers, reader_task, inbox, event, delivered, nadded, lock, procs,
      called, completed, read_failed>>

\* Reader.connect(): "if self.is_connected: return", then "if self._state ==
\* ReaderState.CONNECTING": reader.py defines and imports no name ReaderState
\* (line 23 is a comment), the lookup raises NameError before the dispatcher is
\* made and before transport.connect() is called
Reader_connect == IF reader_state = "CONNECTED" THEN "returned" ELSE "NameError"

\* Reader.disconnect(): "if self._state == ReaderState.DISCONNECTED": the same
\* lookup raises NameError before cleanup() and transport.disconnect()
Reader_disconnect == "NameError"

\* "async with reader": __aenter__ awaits connect(); when it raises, the body and
\* __aexit__ are not run
aenter ==
    /\ scope = "outside"
    /\ scope' = IF Reader_connect = "returned" THEN "body" ELSE "enter_raised"
    /\ UNCHANGED <<transport_vars, sent, write_error, rx_buffer, pending_responses,
                   futures, notification_callbacks, call, rx_pc, tasks, nresp, elapsed,
                   stream, dispatched, buffer, returned, peer_frames, chunks, log, kind,
                   reader_state>>

\* __aexit__ awaits disconnect(); the application leaves the body, or calls it
\* on a reader it could not enter
aexit ==
    /\ scope \in {"body", "enter_raised"}
    /\ scope' = IF Reader_disconnect = "returned" THEN "left" ELSE "exit_raised"
    /\ UNCHANGED <<transport_vars, sent, write_error, rx_buffer, pending_responses,
                   futures, notification_callbacks, call, rx_pc, tasks, nresp, elapsed,
                   stream, dispatched, buffer, returned, peer_frames, chunks, log, kind,
                   reader_state>>

TransportSpecInit ==
    /\ DispatcherInit
    /\ stream = <<>>
    /\ dispatched = <<>>
    /\ buffer = <<>>
    /\ returned = <<>>
    /\ peer_frames = <<>>
    /\ chunks = <<>>
    /\ log = <<>>
    /\ kind \in {"mock", "tcp", "serial"}
    /\ TransportInit

TransportNext ==
    \/ \E p \in TransportUsers : connect_call(p)
    \/ \E p \in TransportUsers : connect_enter(p)
    \/ \E p \in TransportUsers : connect_done(p)
    \/ \E p \in TransportUsers : connect_fail(p)
    \/ \E p \in TransportUsers : disconnect_call(p)
    \/ \E p \in TransportProcs : disconnect_enter(p)
    \/ \E p \in TransportProcs : reader_stopped(p)
    \/ \E p \in TransportProcs : writer_closed(p)
    \/ \E i \in 1..Len(readers) : reader_loop(i)
    \/ \E i \in 1..Len(readers) : reader_slept(i)
    \/ \E i \in 1..Len(readers) : reader_sink_done(i)
    \/ \E i \in 1..Len(readers) : reader_read(i)
    \/ \E i \in 1..Len(readers) : reader_cancelled(i)
    \/ handle_read_end
    \/ add_response
    \/ \E item \in {"chunk", "EOF", "ERR"} : peer_sends(item)
    \/ aenter
    \/ aexit

SpecTransport == TransportSpecInit /\ [][TransportNext]_vars

\* the chunk the reader task has taken from the queue and not yet given to the sink
InHand ==
    IF reader_task # 0 /\ readers[reader_task].pc = "sleep"
    THEN <<readers[reader_task].data>>
    ELSE <<>>

\* the numbers of the chunks in the queue
Queued == [k \in 1..Len(inbox) |-> inbox[k].n]

DisconnectCalled == \E k \in 1..Len(called) : called[k] = "disconnect"

\* C27: the sink gets the chunks in the order of their arrival and each at most
\* once; as long as disconnect() was not called, every chunk given to the mock
\* transport, before connect() or while the reader loop is busy, is delivered, in
\* the hand of the loop or in the queue, and the loop never waits for the event
\* while a chunk is in the queue.
C27_DeliveredOnceInOrder ==
    /\ \A i, j \in 1..Len(delivered) : i < j => delivered[i] < delivered[j]
    /\ kind = "mock" /\ ~DisconnectCalled
         => delivered \o InHand \o Queued = [k \in 1..nadded |-> k]
    /\ kind = "mock" /\ ~event => inbox = <<>>
    /\ kind = "mock" /\ ~DisconnectCalled /\ connected /\ ~event
         /\ readers[reader_task].pc = "wait"
         => delivered = [k \in 1..nadded |-> k]

\* both chunks are delivered, the second was queued while the loop was away from
\* the queue, and the loop waits for more
C27_Witness ==
    /\ kind = "mock"
    /\ connected
    /\ ~DisconnectCalled
    /\ nadded = MaxAdds
    /\ delivered = <<1, 2>>
    /\ readers[reader_task].pc = "wait"
    /\ ~event

\* a step of the task that handles the failed read
HandlerStep ==
    \/ handle_read_end
    \/ disconnect_enter(0)
    \/ reader_stopped(0)
    \/ writer_closed(0)

\* a step by which a connect() or disconnect() in progress of the application
\* releases _connection_lock
LockHolderStep ==
    \E p \in TransportUsers :
        connect_done(p) \/ connect_fail(p) \/ reader_stopped(p) \/ writer_closed(p)

\* the event loop runs every task that can run: the handler of the failed read
\* is run, _connection_lock is released again, a cancelled reader task ends
SpecTransportFair ==
    /\ SpecTransport
    /\ WF_vars(HandlerStep)
    /\ WF_vars(LockHolderStep)
    /\ WF_vars(\E i \in 1..Len(readers) : reader_cancelled(i))

\* C28, first part: after the reader task has met the end of the stream or a
\* read error, is_connected() becomes false.
C28_FailedReadDisconnects == read_failed ~> ~connected

\* what TcpTransport does: its handler task calls disconnect()
TcpFailedReadDisconnects == (kind = "tcp" /\ read_failed) ~> ~connected

\* C28, second part: after the reader task has met the end of the stream or a
\* read error, the sink is not invoked for that connection.
C28_NoSinkAfterFailedRead ==
    [][read_failed /\ read_failed' => delivered' = delivered]_vars

\* the tcp transport has disconnected itself after the failed read
C28_Witness ==
    /\ kind = "tcp"
    /\ read_failed
    /\ ~connected
    /\ ~DisconnectCalled
    /\ delivered # <<>>

\* every call of connect() and disconnect() has returned, and the last to return
\* was a disconnect()
EndsWithDisconnect ==
    /\ completed # <<>>
    /\ Len(completed) = Len(called)
    /\ completed[Len(completed)] = "disconnect"

\* a disconnect() returns in this step
DisconnectReturns ==
    /\ Len(completed') = Len(completed) + 1
    /\ completed'[Len(completed')] = "disconnect"

\* C29: at most one reader task runs at a time; when the calls of connect() and
\* disconnect() end with a disconnect() that has returned, the transport is
\* disconnected, no reader task runs and the sink is not invoked; a disconnect()
\* of a disconnected transport returns and changes nothing.
C29_DisconnectStopsReader ==
    /\ [](Cardinality(Running) <= 1)
    /\ [](EndsWithDisconnect => ~connected /\ Running = {})
    /\ [][EndsWithDisconnect => delivered' = delivered]_vars
    /\ [][DisconnectReturns /\ ~connected /\ Running = {}
            => ~connected' /\ readers' = readers /\ delivered' = delivered]_vars

\* a connected transport that delivered a chunk was disconnected twice
C29_Witness ==
    /\ EndsWithDisconnect
    /\ called = <<"connect", "disconnect", "disconnect">>
    /\ delivered # <<>>
    /\ readers # <<>>

\* __aexit__ has run
Left == scope \in {"left", "exit_raised"}

\* C30: when the scope of a reader on a mock transport, whose connect() does
\* not fail, has been entered, the body runs with the reader CONNECTED and the
\* transport connected; when __aexit__ has run, the reader is DISCONNECTED and
\* the transport is disconnected.
C30_ScopedHandle ==
    /\ kind = "mock" /\ scope # "outside" /\ ~Left
         => scope = "body" /\ reader_state = "CONNECTED" /\ connected
    /\ Left => reader_state = "DISCONNECTED" /\ ~connected /\ Running = {}

(***************************************************************************)
(* uhf_rfid/core/reader.py: the tag notification callbacks of the reader,  *)
(* with a dispatcher in place.                                             *)
(***************************************************************************)
MaxTagOps == 3

NOTIF_OFFLINE_TAG_UPLOADED == 129

\* getattr(cph_const, name): the value of the constant, or -1 when constants.py
\* defines no such name and the lookup raises AttributeError
cph_const(name) ==
    CASE name = "NOTIF_TAG_UPLOADED" -> NOTIF_TAG_UPLOADED
      [] name = "NOTIF_OFFLINE_TAG_UPLOADED" -> NOTIF_OFFLINE_TAG_UPLOADED
      [] name = "NOTIF_HEARTBEAT" -> NOTIF_HEARTBEAT
      [] OTHER -> -1

\* the statements of a try block, one dispatcher call per constant name, run in
\* order; the first name that is not defined raises AttributeError, and the
\* rest of the block is not run
RECURSIVE RegisterEach(_, _, _)
RegisterEach(cbs, names, callback) ==
    IF names = <<>> \/ cph_const(Head(names)) = -1 THEN cbs
    ELSE RegisterEach(register(cbs, cph_const(Head(names)), callback), Tail(names), callback)

RECURSIVE UnregisterEach(_, _, _)
UnregisterEach(cbs, names, callback) ==
    IF names = <<>> \/ cph_const(Head(names)) = -1 THEN cbs
    ELSE UnregisterEach(unregister(cbs, cph_const(Head(names)), callback), Tail(names),
                        callback)

\* Reader.register_tag_notify_callback(callback)
register_tag_notify_callback(cbs, callback) ==
    RegisterEach(cbs, <<"NOTIF_TAG_UPLOADED", "NOTIF_OFFLINE_TAG_UPLOADED">>, callback)

\* Reader.unregister_tag_notify_callback(callback): the AttributeError is
\* caught and passed over
unregister_tag_notify_callback(cbs, callback) ==
    UnregisterEach(cbs, <<"CMD_TAG_UPLOAD", "NOTIF_TAG_UPLOADED",
                          "NOTIF_OFFLINE_TAG_UPLOADED">>, callback)

\* the application calls op of the reader: its effect on the subscriptions is cbs
TagCalled(op, callback, cbs) ==
    /\ Len(log) < MaxTagOps
    /\ notification_callbacks' = cbs
    /\ log' = Append(log, [op |-> op, frame_code |-> NOTIF_TAG_UPLOADED,
                           callback |-> callback, running |-> Len(tasks)])
    /\ UNCHANGED <<connected, sent, write_error, rx_buffer, pending_responses, futures,
                   call, rx_pc, tasks, nresp, elapsed, stream, dispatched, buffer,
                   returned, peer_frames, chunks, transport>>

call_register_tag_notify(callback) ==
    TagCalled("register_tag_notify", callback,
              register_tag_notify_callback(notification_callbacks, callback))

call_unregister_tag_notify(callback) ==
    TagCalled("unregister_tag_notify", callback,
              unregister_tag_notify_callback(notification_callbacks, callback))

\* the tag notifications of the peer: online (0x80) and offline (0x81)
TagNotifications ==
    {[frame_type |-> FRAME_TYPE_NOTIFICATION, address |-> 0, frame_code |-> code,
      parameters |-> <<TAG_SINGLE_TAG, 4, TAG_EPC, 2, 226, 0>>, bad |-> FALSE] :
        code \in {NOTIF_TAG_UPLOADED, NOTIF_OFFLINE_TAG_UPLOADED}}

\* a connected reader without subscriptions and without calls in progress; the
\* peer sends two tag notifications, each read as one chunk
TagInit ==
    /\ connected = TRUE
    /\ sent = <<>>
    /\ write_error = FALSE
    /\ rx_buffer = <<>>
    /\ pending_responses = <<>>
    /\ futures = [c \in Calls |-> NoFuture]
    /\ notification_callbacks = <<>>
    /\ call = [c \in Calls |-> IdleCall]
    /\ rx_pc = "idle"
    /\ tasks = <<>>
    /\ nresp = [c \in Calls |-> 0]
    /\ elapsed = {}
    /\ peer_frames \in {<<x, y>> : x \in TagNotifications, y \in TagNotifications}
    /\ stream = Concat([i \in 1..Len(peer_frames) |-> OnWire(peer_frames[i])])
    /\ dispatched = <<>>
    /\ buffer = <<>>
    /\ returned = <<>>
    /\ chunks = <<>>
    /\ PeripheralInit

TagNext ==
    \/ \E callback \in SubsCallbacks : call_register_tag_notify(callback)
    \/ \E callback \in SubsCallbacks : call_unregister_tag_notify(callback)
    \/ \E k \in {Len(chunks) + 1} \cap DOMAIN peer_frames :
           read_data_loop(Len(OnWire(peer_frames[k])))
    \/ \E i \in 1..Len(tasks) : callback_done(i)
    \/ stream_gather_done

SpecTagNotify == TagInit /\ [][TagNext]_vars

\* the last call the application made for the callback, "none" if it made none
RECURSIVE LastTagCall(_, _)
LastTagCall(calls, callback) ==
    IF calls = <<>> THEN "none"
    ELSE IF calls[Len(calls)].callback = callback THEN calls[Len(calls)].op
    ELSE LastTagCall(SubSeq(calls, 1, Len(calls) - 1), callback)

TagCodes == {NOTIF_TAG_UPLOADED, NOTIF_OFFLINE_TAG_UPLOADED}

\* C31, as stated: after register_tag_notify_callback(cb), cb is registered for
\* 0x80 and for 0x81; after a following unregister_tag_notify_callback(cb) it is
\* registered for neither, and no task is created for it by a later tag
\* notification.
C31_TagNotifyBothCodes ==
    /\ [](\A callback \in SubsCallbacks :
            /\ LastTagCall(log, callback) = "register_tag_notify"
                 => \A code \in TagCodes : Registered(callback, code)
            /\ LastTagCall(log, callback) = "unregister_tag_notify"
                 => \A code \in TagCodes : ~Registered(callback, code))
    /\ [][StepCreatesTasks
            => \A i \in 1..Len(tasks') :
                 LastTagCall(log, tasks'[i].cb) # "unregister_tag_notify"]_vars

\* what the code does: registration covers both codes, and
\* unregister_tag_notify_callback changes nothing
C31_RegisterBothUnregisterNothing ==
    /\ [](\A callback \in SubsCallbacks :
            (\E k \in 1..Len(log) :
                log[k].op = "register_tag_notify" /\ log[k].callback = callback)
              => \A code \in TagCodes : Registered(callback, code))
    /\ [][\A callback \in SubsCallbacks :
            log' = Append(log, [op |-> "unregister_tag_notify",
                                frame_code |-> NOTIF_TAG_UPLOADED,
                                callback |-> callback, running |-> Len(tasks)])
              => notification_callbacks' = notification_callbacks]_vars

(***************************************************************************)
(* uhf_rfid/protocols/framing.py: build_frame, one bit of the frame        *)
(* changed on the way, parse_frame_header.                                 *)
(***************************************************************************)
MaxParamLen == 3

\* the parameter bytes of the frames: none, up to MaxParamLen bytes, and a whole
\* frame inside the parameters
CodecParameters ==
    {<<>>, <<40>>, <<0>>, <<82, 70>>, <<1, 128>>, <<255, 255, 255>>,
     build_frame(FRAME_TYPE_RESPONSE, 0, CMD_GET_VERSION, <<>>).data}

\* the fields given to build_frame: every frame type, addresses and codes at the
\* ends and in the middle of their ranges, among them the address 0x5246 ("RF")
CodecFrames ==
    {[frame_type |-> t, address |-> a, frame_code |-> c, parameters |-> p] :
        t \in {FRAME_TYPE_COMMAND, FRAME_TYPE_RESPONSE, FRAME_TYPE_NOTIFICATION},
        a \in {0, 1, 256, 21062, 65535},
        c \in {0, CMD_GET_VERSION, 82, 255},
        p \in CodecParameters}

\* the value of the byte v with its bit b changed
FlipBit(v, b) == IF (v \div (2 ^ b)) % 2 = 1 THEN v - 2 ^ b ELSE v + 2 ^ b

Step(op, byte, bit) == [op |-> op, byte |-> byte, bit |-> bit]

FrameCodecInit ==
    /\ DispatcherInit
    /\ stream = <<>>
    /\ dispatched = <<>>
    /\ buffer = <<>>
    /\ returned = <<>>
    /\ peer_frames \in {<<x>> : x \in CodecFrames}
    /\ chunks = <<>>
    /\ PeripheralInit

codec_unchanged ==
    <<connected, sent, write_error, rx_buffer, pending_responses, futures,
      notification_callbacks, call, rx_pc, tasks, nresp, elapsed, stream, dispatched,
      peer_frames, chunks, transport>>

\* buffer = build_frame(frame_type, address, frame_code, parameters)
call_build_frame ==
    /\ log = <<>>
    /\ buffer' = Built(peer_frames[1])
    /\ log' = <<Step("build_frame", 0, 0)>>
    /\ UNCHANGED <<returned, codec_unchanged>>

\* the bit of the 0-based byte of the frame is changed on the line
flip_bit(byte, bit) ==
    /\ Len(log) = 1
    /\ byte \in 0..(Len(buffer) - 1)
    /\ buffer' = [buffer EXCEPT ![byte + 1] = FlipBit(buffer[byte + 1], bit)]
    /\ log' = Append(log, Step("flip", byte, bit))
    /\ UNCHANGED <<returned, codec_unchanged>>

\* parse_frame_header(buffer)
call_parse_frame_header ==
    /\ log # <<>>
    /\ returned = <<>>
    /\ returned' = <<parse_frame_header(buffer)>>
    /\ log' = Append(log, Step("parse_frame_header", 0, 0))
    /\ UNCHANGED <<buffer, codec_unchanged>>

FrameCodecNext ==
    \/ call_build_frame
    \/ \E byte \in 0..(Len(buffer) - 1), bit \in 0..7 : flip_bit(byte, bit)
    \/ call_parse_frame_header

SpecFrameCodec == FrameCodecInit /\ [][FrameCodecNext]_vars

\* the frame was built and parsed, and not changed in between
ParsedUnchanged == returned # <<>> /\ Len(log) = 2

\* the frame was built, one bit of it was changed, and it was parsed
ParsedFlipped == returned # <<>> /\ Len(log) = 3

\* C32: parse_frame_header(build_frame(type, addr, code, p)) returns
\* (type, addr, code, |p|, p, 9 + |p|, 0).
C32_FrameRoundTrip ==
    ParsedUnchanged =>
        LET x == peer_frames[1]
        IN returned[1] = [error |-> None, frame_type |-> x.frame_type,
                          address |-> x.address, frame_code |-> x.frame_code,
                          declared_param_len |-> Len(x.parameters),
                          parameters |-> x.parameters,
                          expected_total_length |-> 9 + Len(x.parameters),
                          start_index |-> 0]

\* a frame with the address 0x5246, the code 0x52 and two parameter bytes "RF" made
\* the round trip
C32_Witness ==
    /\ ParsedUnchanged
    /\ peer_frames[1].address = 21062
    /\ peer_frames[1].frame_code = 82
    /\ peer_frames[1].parameters = <<82, 70>>
    /\ returned[1].error = None

\* the 0-based byte of the frame that was changed
Flipped == log[2].byte

\* the changed byte is one of the header "RF" or of the parameter length
FlippedHeaderOrLength == Flipped \in {0, 1, 6, 7}

\* C33, as stated: with any single bit of the frame changed, parse_frame_header
\* raises ChecksumError or FrameParseError.
C33_AnyBitFlipRejected ==
    ParsedFlipped => returned[1].error \in {"ChecksumError", "FrameParseError"}

\* C33, amended: a changed bit in the frame type, the address, the frame code,
\* the parameters or the checksum makes parse_frame_header raise ChecksumError;
\* a changed bit in the header "RF" or in the parameter length makes it raise
\* ChecksumError or FrameParseError, or return another frame than the one sent:
\* one that starts further on, or one with fewer parameters.
C33_BitFlipNeverReturnsTheFrame ==
    ParsedFlipped =>
        LET x == peer_frames[1]
            r == returned[1]
        IN IF FlippedHeaderOrLength
           THEN \/ r.error \in {"ChecksumError", "FrameParseError"}
                \/ r.error = None /\ r.start_index > 0
                \/ r.error = None /\ r.declared_param_len < Len(x.parameters)
           ELSE r.error = "ChecksumError"

\* the top bit of the last parameter byte was changed, and the checksum of the
\* frame did not match
C33_Witness ==
    /\ ParsedFlipped
    /\ Len(peer_frames[1].parameters) = MaxParamLen
    /\ Flipped = 8 + MaxParamLen - 1
    /\ log[2].bit = 7
    /\ returned[1].error = "ChecksumError"

(***************************************************************************)
(* uhf_rfid/protocols/cph/tlv.py: build_operation_tlv and the parser of    *)
(* the value of TAG_OPERATION.                                             *)
(***************************************************************************)
OP_TYPE_READ == 0

OP_TYPE_WRITE == 1

OP_TYPE_LOCK == 2

MEM_BANK_EPC == 1

MEM_BANK_USER == 3

\* ok = FALSE stands for ValueError; write_data is PyNone or PyBytes(data)
build_operation_tlv(op_type, membank, word_ptr, word_count, password, write_data) ==
    IF \/ Len(password) # 4
       \/ ~(0 <= word_ptr /\ word_ptr <= 65535)
       \/ ~(0 <= word_count /\ word_count <= 255)
       \/ op_type = OP_TYPE_WRITE /\ write_data = PyNone
       \/ op_type = OP_TYPE_WRITE /\ write_data # PyNone
            /\ Len(write_data.v) # word_count * 2
       \/ op_type # OP_TYPE_WRITE /\ write_data # PyNone
    THEN [ok |-> FALSE, data |-> <<>>]
    ELSE LET fixed == password \o <<op_type, membank, word_ptr \div 256, word_ptr % 256,
                                   word_count>>
             value_bytes == IF op_type = OP_TYPE_WRITE THEN fixed \o write_data.v ELSE fixed
         IN build_tlv(TAG_OPERATION, value_bytes)

\* the arguments of build_operation_tlv: reads, writes and locks, word pointers
\* of one and of two bytes and one out of range, a password that is too short
OperationArgs ==
    {[op_type |-> t, membank |-> m, word_ptr |-> a, word_count |-> n, password |-> pw,
      write_data |-> d] :
        t \in {OP_TYPE_READ, OP_TYPE_WRITE, OP_TYPE_LOCK},
        m \in {MEM_BANK_EPC, MEM_BANK_USER},
        a \in {0, 2, 256, 513, 65535, 65536},
        n \in {0, 1, 2, 6},
        pw \in {<<0, 0, 0, 0>>, <<17, 34, 51, 68>>, <<1, 2, 3>>},
        d \in {PyNone, PyBytes(<<>>), PyBytes(<<170, 187>>), PyBytes(<<170, 187, 204, 221>>)}}

\* buffer = build_operation_tlv(...), recorded with its arguments
call_build_operation_tlv(x) ==
    /\ log = <<>>
    /\ LET built == build_operation_tlv(x.op_type, x.membank, x.word_ptr, x.word_count,
                                        x.password, x.write_data)
       IN /\ buffer' = built.data
          /\ log' = <<[op |-> "build_operation_tlv", args |-> x, ok |-> built.ok]>>
    /\ UNCHANGED <<returned, codec_unchanged>>

\* parse_tlv(buffer), and _parse_operation_tlv_value on its value
call_parse_operation_tlv ==
    /\ Len(log) = 1
    /\ log[1].ok
    /\ returned = <<>>
    /\ LET t == parse_tlv(buffer)
       IN returned' = <<parse_operation_tlv_value(t.value, t.length)>>
    /\ UNCHANGED <<buffer, log, codec_unchanged>>

OperationTlvNext ==
    \/ \E x \in OperationArgs : call_build_operation_tlv(x)
    \/ call_parse_operation_tlv

SpecOperationTlv == Init /\ [][OperationTlvNext]_vars

\* the parsed operation has the key
HasField(key) == key \in DOMAIN returned[1].v.v

OpField(key) == returned[1].v.v[key]

\* C34, as stated: the parser gives back the password, op_type, mem_bank,
\* word_ptr, word_count and data that build_operation_tlv was given.
C34_OperationRoundTrip ==
    returned # <<>> =>
        LET x == log[1].args
        IN /\ returned[1].ok
           /\ OpField("password") = x.password
           /\ OpField("op_type") = x.op_type
           /\ OpField("membank") = x.membank
           /\ HasField("word_ptr")
           /\ OpField("word_ptr") = x.word_ptr
           /\ OpField("word_count") = x.word_count
           /\ OpField("data") = IF x.write_data = PyNone THEN <<>> ELSE x.write_data.v

\* what the code does: password, op_type and membank are given back; no key
\* holds the word pointer; word_count is the high byte of the word pointer, and
\* the bytes after it, which are the low byte of the word pointer, the word
\* count and the write data, are split into data and extra_data
C34_ParserReadsResponseLayout ==
    returned # <<>> =>
        LET x == log[1].args
            rest == <<x.word_ptr % 256, x.word_count>>
                    \o (IF x.write_data = PyNone THEN <<>> ELSE x.write_data.v)
            taken == Min(2 * (x.word_ptr \div 256), Len(rest))
        IN /\ returned[1].ok
           /\ OpField("password") = x.password
           /\ OpField("op_type") = x.op_type
           /\ OpField("membank") = x.membank
           /\ ~HasField("word_ptr")
           /\ OpField("word_count") = x.word_ptr \div 256
           /\ OpField("data") = SubSeq(rest, 1, taken)
           /\ taken < Len(rest) => OpField("extra_data") = SubSeq(rest, taken + 1, Len(rest))

(***************************************************************************)
(* uhf_rfid/protocols/cph/parameters.py: ExtParams, WorkingParams and      *)
(* TransportParams.  A struct format is the sequence of the widths of its  *)
(* fields in bytes (">BBBH" is <<1, 1, 1, 2>>); an IPv4 address string is  *)
(* the sequence of its dot-separated parts, each a sequence of decimal     *)
(* digits.                                                                 *)
(***************************************************************************)
MaxRawLen == 31

RECURSIVE BigEndian(_, _)
BigEndian(n, width) ==
    IF width = 0 THEN <<>> ELSE Append(BigEndian(n \div 256, width - 1), n % 256)

RECURSIVE FromBigEndian(_)
FromBigEndian(data) ==
    IF data = <<>> THEN 0
    ELSE 256 * FromBigEndian(SubSeq(data, 1, Len(data) - 1)) + data[Len(data)]

RECURSIVE calcsize(_)
calcsize(format) ==
    IF format = <<>> THEN 0 ELSE format[1] + calcsize(Tail(format))

RECURSIVE Power256(_)
Power256(width) == IF width = 0 THEN 1 ELSE 256 * Power256(width - 1)

\* struct.pack(format, *values); ok = FALSE stands for struct.error
RECURSIVE struct_pack(_, _)
struct_pack(format, values) ==
    IF format = <<>> THEN [ok |-> TRUE, data |-> <<>>]
    ELSE LET rest == struct_pack(Tail(format), Tail(values))
         IN IF ~(0 <= values[1] /\ values[1] \div Power256(format[1] - 1) < 256) \/ ~rest.ok
            THEN [ok |-> FALSE, data |-> <<>>]
            ELSE [ok |-> TRUE, data |-> BigEndian(values[1], format[1]) \o rest.data]

\* struct.unpack(format, data), for data of calcsize(format) bytes
RECURSIVE struct_unpack(_, _)
struct_unpack(format, data) ==
    IF format = <<>> THEN <<>>
    ELSE <<FromBigEndian(SubSeq(data, 1, format[1]))>>
         \o struct_unpack(Tail(format), SubSeq(data, format[1] + 1, Len(data)))

\* int(p) of a string of decimal digits
RECURSIVE IntOf(_)
IntOf(digits) ==
    IF digits = <<>> THEN 0
    ELSE 10 * IntOf(SubSeq(digits, 1, Len(digits) - 1)) + digits[Len(digits)]

\* str(b) of a byte
StrOf(b) ==
    IF b < 10 THEN <<b>>
    ELSE IF b < 100 THEN <<b \div 10, b % 10>>
    ELSE <<b \div 100, (b \div 10) % 10, b % 10>>

\* ok = FALSE stands for ValueError
ExtParams_encode(self) ==
    IF \/ ~(0 <= self.relay_mode /\ self.relay_mode <= 1)
       \/ ~(0 <= self.relay_time /\ self.relay_time <= 255)
       \/ ~(0 <= self.verify_flag /\ self.verify_flag <= 1)
       \/ ~(0 <= self.verify_pwd /\ self.verify_pwd <= 65535)
    THEN [ok |-> FALSE, data |-> <<>>]
    ELSE struct_pack(<<1, 1, 1, 2>>,
                     <<self.relay_mode, self.relay_time, self.verify_flag, self.verify_pwd>>)

ExtParams_decode(data) ==
    IF Len(data) # 5 THEN [ok |-> FALSE, v |-> <<>>]
    ELSE LET u == struct_unpack(<<1, 1, 1, 2>>, data)
         IN [ok |-> TRUE,
             v |-> [relay_mode |-> u[1], relay_time |-> u[2], verify_flag |-> u[3],
                    verify_pwd |-> u[4]]]

\* WorkingParams._PACK_FORMAT, ">HHBHBBHHHBBB"
WorkingParams_PACK_FORMAT == <<2, 2, 1, 2, 1, 1, 2, 2, 2, 1, 1, 1>>

WorkingParams_encode(self) ==
    IF ~(0 <= self.work_mode /\ self.work_mode <= 2)
    THEN [ok |-> FALSE, data |-> <<>>]
    ELSE struct_pack(WorkingParams_PACK_FORMAT,
                     <<self.read_duration, self.read_interval, self.work_mode,
                       self.tag_upload_flag, self.trigger_mode_output, self.wiegand_protocol,
                       self.wiegand_interval, self.wiegand_pulse_width,
                       self.wiegand_pulse_interval, self.iso_area, self.iso_addr,
                       self.iso_word_count>>)

WorkingParams_decode(data) ==
    IF Len(data) # calcsize(WorkingParams_PACK_FORMAT) THEN [ok |-> FALSE, v |-> <<>>]
    ELSE LET u == struct_unpack(WorkingParams_PACK_FORMAT, data)
         IN [ok |-> TRUE,
             v |-> [read_duration |-> u[1], read_interval |-> u[2], work_mode |-> u[3],
                    tag_upload_flag |-> u[4], trigger_mode_output |-> u[5],
                    wiegand_protocol |-> u[6], wiegand_interval |-> u[7],
                    wiegand_pulse_width |-> u[8], wiegand_pulse_interval |-> u[9],
                    iso_area |-> u[10], iso_addr |-> u[11], iso_word_count |-> u[12]]]

\* TransportParams._PACK_FORMAT_PREFIX, ">BII"
TransportParams_PACK_FORMAT_PREFIX == <<1, 4, 4>>

\* TransportParams._PACK_FORMAT_SUFFIX, ">HHB"
TransportParams_PACK_FORMAT_SUFFIX == <<2, 2, 1>>

\* ok = FALSE stands for ValueError: not four parts, or a part above 255
ip_to_bytes(ip_str) ==
    IF Len(ip_str) # 4 \/ \E i \in 1..Len(ip_str) : IntOf(ip_str[i]) > 255
    THEN [ok |-> FALSE, data |-> <<>>]
    ELSE [ok |-> TRUE, data |-> [i \in 1..4 |-> IntOf(ip_str[i])]]

bytes_to_ip(ip_bytes) == [i \in 1..4 |-> StrOf(ip_bytes[i])]

TransportParams_encode(self) ==
    LET ip_bytes == ip_to_bytes(self.net_ip_addr)
        mask_bytes == ip_to_bytes(self.net_subnet_mask)
        gw_bytes == ip_to_bytes(self.net_gateway)
        remote_ip_bytes == ip_to_bytes(self.net_remote_ip_addr)
        prefix == struct_pack(TransportParams_PACK_FORMAT_PREFIX,
                              <<self.transport_type, self.uart_baud_rate, self.net_dhcp_flag>>)
        suffix == struct_pack(TransportParams_PACK_FORMAT_SUFFIX,
                              <<self.net_local_port, self.net_remote_port,
                                self.heartbeat_interval>>)
    IN IF ~ip_bytes.ok \/ ~mask_bytes.ok \/ ~gw_bytes.ok \/ ~remote_ip_bytes.ok
          \/ ~prefix.ok \/ ~suffix.ok
       THEN [ok |-> FALSE, data |-> <<>>]
       ELSE [ok |-> TRUE,
             data |-> prefix.data \o ip_bytes.data \o mask_bytes.data \o gw_bytes.data
                      \o remote_ip_bytes.data \o suffix.data]

TransportParams_decode(data) ==
    LET pfx_len == calcsize(TransportParams_PACK_FORMAT_PREFIX)
        sfx_start == pfx_len + 4 * 4
        expected_len == pfx_len + 4 * 4 + calcsize(TransportParams_PACK_FORMAT_SUFFIX)
    IN IF Len(data) # expected_len THEN [ok |-> FALSE, v |-> <<>>]
       ELSE LET p == struct_unpack(TransportParams_PACK_FORMAT_PREFIX,
                                   SubSeq(data, 1, pfx_len))
                s == struct_unpack(TransportParams_PACK_FORMAT_SUFFIX,
                                   SubSeq(data, sfx_start + 1, Len(data)))
            IN [ok |-> TRUE,
                v |-> [transport_type |-> p[1], uart_baud_rate |-> p[2],
                       net_dhcp_flag |-> p[3],
                       net_ip_addr |-> bytes_to_ip(SubSeq(data, pfx_len + 1, pfx_len + 4)),
                       net_subnet_mask |-> bytes_to_ip(SubSeq(data, pfx_len + 5, pfx_len + 8)),
                       net_gateway |-> bytes_to_ip(SubSeq(data, pfx_len + 9, pfx_len + 12)),
                       net_local_port |-> s[1],
                       net_remote_ip_addr |->
                           bytes_to_ip(SubSeq(data, pfx_len + 13, sfx_start)),
                       net_remote_port |-> s[2], heartbeat_interval |-> s[3]]]

ParamClasses == {"ExtParams", "WorkingParams", "TransportParams"}

encode(cls, x) ==
    CASE cls = "ExtParams" -> ExtParams_encode(x)
      [] cls = "WorkingParams" -> WorkingParams_encode(x)
      [] cls = "TransportParams" -> TransportParams_encode(x)

decode(cls, data) ==
    CASE cls = "ExtParams" -> ExtParams_decode(data)
      [] cls = "WorkingParams" -> WorkingParams_decode(data)
      [] cls = "TransportParams" -> TransportParams_decode(data)

\* "192.168.1.178", "255.255.255.0", "192.168.1.1", "192.168.1.100", "10.0.0.1"
Ip(a, b, c, d) == <<StrOf(a), StrOf(b), StrOf(c), StrOf(d)>>

\* field values at, inside and just outside the range of each field
ExtParamsValues ==
    [relay_mode : {0, 1, 2}, relay_time : {0, 255, 256}, verify_flag : {0, 1},
     verify_pwd : {0, 4660, 65535, 65536}]

WorkingParamsValues ==
    [read_duration : {300, 65535, 65536}, read_interval : {50}, work_mode : {0, 2, 3},
     tag_upload_flag : {0, 258}, trigger_mode_output : {1}, wiegand_protocol : {1},
     wiegand_interval : {772}, wiegand_pulse_width : {1286}, wiegand_pulse_interval : {1800},
     iso_area : {7}, iso_addr : {0, 255}, iso_word_count : {9}]

\* the addresses include one of three parts, one with a part above 255 and
\* "192.168.01.178", whose third part has a leading zero
TransportParamsValues ==
    [transport_type : {0, 5}, uart_baud_rate : {9600, 115200}, net_dhcp_flag : {0, 1},
     net_ip_addr : {Ip(192, 168, 1, 178), Ip(10, 0, 0, 1),
                    <<StrOf(192), StrOf(168), <<0, 1>>, StrOf(178)>>,
                    <<StrOf(1), StrOf(2), StrOf(3)>>,
                    <<StrOf(2), <<5, 6>>, StrOf(1), StrOf(1)>>},
     net_subnet_mask : {Ip(255, 255, 255, 0)}, net_gateway : {Ip(192, 168, 1, 1)},
     net_local_port : {6000}, net_remote_ip_addr : {Ip(192, 168, 1, 100)},
     net_remote_port : {6001, 65536}, heartbeat_interval : {0, 30}]

ParamValues(cls) ==
    CASE cls = "ExtParams" -> ExtParamsValues
      [] cls = "WorkingParams" -> WorkingParamsValues
      [] cls = "TransportParams" -> TransportParamsValues

\* buffer = x.encode() of an instance x of the class
call_encode(cls, x) ==
    /\ log = <<>>
    /\ LET encoded == encode(cls, x)
       IN /\ buffer' = encoded.data
          /\ log' = <<[op |-> "encode", cls |-> cls, x |-> x, ok |-> encoded.ok]>>
    /\ UNCHANGED <<returned, codec_unchanged>>

\* cls.decode(buffer) of the bytes that encode returned
call_decode ==
    /\ Len(log) = 1
    /\ log[1].op = "encode"
    /\ log[1].ok
    /\ returned = <<>>
    /\ returned' = <<decode(log[1].cls, buffer)>>
    /\ UNCHANGED <<buffer, log, codec_unchanged>>

\* cls.decode(data) of n bytes that no encode produced
call_decode_bytes(cls, n) ==
    /\ log = <<>>
    /\ buffer' = [i \in 1..n |-> i]
    /\ returned' = <<decode(cls, buffer')>>
    /\ log' = <<[op |-> "decode", cls |-> cls, n |-> n]>>
    /\ UNCHANGED codec_unchanged

ParamsNext ==
    \/ \E cls \in ParamClasses : \E x \in ParamValues(cls) : call_encode(cls, x)
    \/ call_decode
    \/ \E cls \in ParamClasses : \E n \in 0..MaxRawLen : call_decode_bytes(cls, n)

SpecParams == Init /\ [][ParamsNext]_vars

\* the length the specification gives for the struct
DocumentedLength(cls) ==
    CASE cls = "ExtParams" -> 5
      [] cls = "WorkingParams" -> 18
      [] cls = "TransportParams" -> 26

\* the length of the struct in the code
EncodedLength(cls) ==
    CASE cls = "ExtParams" -> 5
      [] cls = "WorkingParams" -> 18
      [] cls = "TransportParams" -> 30

\* the instance with every address string in the form str() gives
Canonical(cls, x) ==
    IF cls = "TransportParams"
    THEN [x EXCEPT !.net_ip_addr = [i \in 1..4 |-> StrOf(IntOf(x.net_ip_addr[i]))]]
    ELSE x

Encoded == log # <<>> /\ log[1].op = "encode" /\ log[1].ok

DecodedBytes == log # <<>> /\ log[1].op = "decode"

\* C35, as stated: for ExtParams (5 bytes), WorkingParams (18 bytes) and
\* TransportParams (26 bytes), every instance that encode accepts is encoded
\* in exactly that many bytes and decodes to itself, and decode rejects input
\* of every other length.
C35_ParamStructsRoundTrip ==
    /\ Encoded => Len(buffer) = DocumentedLength(log[1].cls)
    /\ Encoded /\ returned # <<>> => returned[1].ok /\ returned[1].v = log[1].x
    /\ DecodedBytes => (returned[1].ok <=> log[1].n = DocumentedLength(log[1].cls))

\* what the code does: TransportParams is 30 bytes, since net_dhcp_flag is
\* packed in 4 bytes and there are 4 addresses, and an address string comes
\* back in the form str() gives; the rest is as the claim says
C35_TransportParamsThirtyBytes ==
    /\ Encoded => Len(buffer) = EncodedLength(log[1].cls)
    /\ Encoded /\ returned # <<>> =>
           returned[1].ok /\ returned[1].v = Canonical(log[1].cls, log[1].x)
    /\ DecodedBytes => (returned[1].ok <=> log[1].n = EncodedLength(log[1].cls))

(***************************************************************************)
(* The power encoders: tlv.build_power_parameter_tlv and                   *)
(* CPHProtocol.encode_set_power_request.                                   *)
(***************************************************************************)
\* the power values tried run from this many values below 0 up to MaxPower
PowersBelowZero == 3

MaxPower == 258

\* ok = FALSE stands for ValueError
build_single_parameter_tlv(param_type, param_value_bytes) ==
    IF ~(0 <= param_type /\ param_type <= 255)
    THEN [ok |-> FALSE, data |-> <<>>]
    ELSE build_tlv(TAG_SINGLE_PARAMETER, <<param_type>> \o param_value_bytes)

\* a value outside 0..30 and inside 0..255 is logged as a warning and encoded
build_power_parameter_tlv(power_dbm) ==
    IF ~(0 <= power_dbm /\ power_dbm <= 30) /\ ~(0 <= power_dbm /\ power_dbm <= 255)
    THEN [ok |-> FALSE, data |-> <<>>]
    ELSE build_single_parameter_tlv(PARAM_TYPE_POWER, <<power_dbm>>)

PowerCalled(encoder, power_dbm, built) ==
    /\ log = <<>>
    /\ buffer' = built.data
    /\ log' = <<[op |-> encoder, power_dbm |-> power_dbm, ok |-> built.ok]>>
    /\ UNCHANGED <<returned, codec_unchanged>>

call_build_power_parameter_tlv(power_dbm) ==
    PowerCalled("build_power_parameter_tlv", power_dbm, build_power_parameter_tlv(power_dbm))

call_encode_set_power_request(power_dbm) ==
    PowerCalled("encode_set_power_request", power_dbm, encode_set_power_request(power_dbm))

PowerNext ==
    \/ \E power_dbm \in (0 - PowersBelowZero)..MaxPower : call_build_power_parameter_tlv(power_dbm)
    \/ \E power_dbm \in (0 - PowersBelowZero)..MaxPower : call_encode_set_power_request(power_dbm)

SpecPower == Init /\ [][PowerNext]_vars

\* the encoder accepts exactly the values of the range: they give the 4 bytes
\* 26 02 01 <value>, every other value gives an error and no bytes
AcceptsExactly(range) ==
    IF log[1].power_dbm \in range
    THEN log[1].ok /\ buffer = <<38, 2, 1, log[1].power_dbm>>
    ELSE ~log[1].ok /\ buffer = <<>>

\* C36, as stated: the power encoder accepts exactly 0..30; a value outside is
\* rejected and gives no TLV bytes, a value inside gives 26 02 01 <value>.
C36_PowerAcceptsExactly0To30 == log # <<>> => AcceptsExactly(0..30)

\* what the code does: build_power_parameter_tlv accepts exactly 0..255 and
\* encode_set_power_request exactly 0..33
C36_PowerAccepts0To255And0To33 ==
    log # <<>> =>
        IF log[1].op = "build_power_parameter_tlv"
        THEN AcceptsExactly(0..255)
        ELSE AcceptsExactly(0..33)

(***************************************************************************)
(* uhf_rfid/core/dispatcher.py: the parameter region of a response.        *)
(*                                                                         *)
(* Two calls wait for their responses; the peer sends a response to the    *)
(* first whose parameter region is one of several, well formed or not,     *)
(* and may send a second frame behind it.                                  *)
(***************************************************************************)
\* the parameter regions: no TLV; a status of 0 and one of 20; a status TLV of
\* two bytes and one of none; a TLV that is no status; a two-byte status before
\* a one-byte status of 20; a status of 20 before a status of 0; and four that
\* do not parse: half a header, a length beyond the end, a single-parameter TLV
\* without value, and a status of 20 before a TLV that is cut short
ResponseParameters ==
    {<<>>,
     StatusTlv(STATUS_SUCCESS),
     StatusTlv(STATUS_PARAMETER_UNSUPPORTED),
     <<TAG_STATUS, 2, 0, 20>>,
     <<TAG_STATUS, 0>>,
     <<TAG_DEVICE_TYPE, 1, 5>>,
     <<TAG_STATUS, 2, 0, 20>> \o StatusTlv(STATUS_PARAMETER_UNSUPPORTED),
     StatusTlv(STATUS_PARAMETER_UNSUPPORTED) \o StatusTlv(STATUS_SUCCESS),
     <<TAG_STATUS>>,
     <<TAG_STATUS, 3, 20>>,
     <<TAG_SINGLE_PARAMETER, 0>>,
     StatusTlv(STATUS_PARAMETER_UNSUPPORTED) \o <<TAG_EPC, 5, 1>>}

\* the frame the peer may send behind the first
FollowingFrames ==
    {[frame_type |-> FRAME_TYPE_RESPONSE, address |-> 0, frame_code |-> CMD_GET_VERSION,
      parameters |-> StatusTlv(STATUS_SUCCESS), bad |-> FALSE],
     [frame_type |-> FRAME_TYPE_RESPONSE, address |-> 0, frame_code |-> CMD_SET_PARAMETER,
      parameters |-> <<TAG_DEVICE_TYPE, 1, 5>>, bad |-> FALSE],
     [frame_type |-> FRAME_TYPE_NOTIFICATION, address |-> 0,
      frame_code |-> NOTIF_TAG_UPLOADED,
      parameters |-> <<TAG_SINGLE_TAG, 4, TAG_EPC, 2, 226, 0>>, bad |-> FALSE]}

FirstResponse(parameters) ==
    [frame_type |-> FRAME_TYPE_RESPONSE, address |-> 0, frame_code |-> CMD_GET_VERSION,
     parameters |-> parameters, bad |-> FALSE]

\* The state after connect, send_command_wait_response(0x40) and
\* send_command_wait_response(0x48), both suspended in wait_for.
ResponsesInit ==
    /\ connected = TRUE
    /\ sent = <<encode_command(CMD_GET_VERSION, 0, <<>>).data,
                encode_command(CMD_SET_PARAMETER, 0, <<>>).data>>
    /\ write_error = FALSE
    /\ rx_buffer = <<>>
    /\ pending_responses = (CMD_GET_VERSION :> 1) @@ (CMD_SET_PARAMETER :> 2)
    /\ futures = [c \in Calls |-> IF StreamCode(c) # 0 THEN PendingFuture ELSE NoFuture]
    /\ notification_callbacks \in {<<>>, (NOTIF_TAG_UPLOADED :> <<"cb1">>)}
    /\ call = [c \in Calls |->
                  IF StreamCode(c) # 0
                  THEN [pc |-> "waiting", command_code |-> StreamCode(c),
                        full_frame |-> encode_command(StreamCode(c), 0, <<>>).data,
                        outcome |-> NoOutcome]
                  ELSE IdleCall]
    /\ rx_pc = "idle"
    /\ tasks = <<>>
    /\ nresp = [c \in Calls |-> 0]
    /\ elapsed = {}
    /\ peer_frames \in {<<FirstResponse(p)>> : p \in ResponseParameters}
                       \cup {<<FirstResponse(p), y>> : p \in ResponseParameters,
                                                      y \in FollowingFrames}
    /\ stream = Concat([i \in 1..Len(peer_frames) |-> OnWire(peer_frames[i])])
    /\ dispatched = <<>>
    /\ buffer = <<>>
    /\ returned = <<>>
    /\ chunks = <<>>
    /\ PeripheralInit

\* the transport reads whole frames: the first frame, or all that is left
WholeFrames ==
    {Len(stream)} \cup (IF chunks = <<>> THEN {Len(OnWire(peer_frames[1]))} ELSE {})

ResponsesNext ==
    \/ \E n \in WholeFrames : read_data_loop(n)
    \/ \E i \in 1..Len(tasks) : callback_done(i)
    \/ stream_gather_done
    \/ \E c \in Calls : resume(c)
    \/ \E c \in Calls : timeout_fire(c)
    \/ \E c \in Calls : timeout_handle(c)

SpecResponses == ResponsesInit /\ [][ResponsesNext]_vars

\* the TLVs of a parameter region, up to the first that does not parse
RECURSIVE TlvsOf(_)
TlvsOf(data) ==
    IF data = <<>> \/ ~parse_tlv(data).ok THEN <<>>
    ELSE <<parse_tlv(data)>> \o TlvsOf(SliceFrom(data, parse_tlv(data).consumed))

\* the region holds a status TLV of one byte whose value is not 0
OneByteErrorStatus(parameters) ==
    \E i \in 1..Len(TlvsOf(parameters)) :
        /\ TlvsOf(parameters)[i].tag = TAG_STATUS
        /\ TlvsOf(parameters)[i].length = 1
        /\ TlvsOf(parameters)[i].value # <<0>>

\* the region holds no status TLV of one byte
NoOneByteStatus(parameters) ==
    \A i \in 1..Len(TlvsOf(parameters)) :
        TlvsOf(parameters)[i].tag = TAG_STATUS => TlvsOf(parameters)[i].length # 1

\* the first response with the code of call c that was routed with its
\* parameters parsed, as a set of one frame or none
FirstRouted(c) ==
    {dispatched[i] : i \in {j \in 1..Len(dispatched) :
        /\ dispatched[j].ok
        /\ dispatched[j].frame_type = FRAME_TYPE_RESPONSE
        /\ dispatched[j].frame_code = StreamCode(c)
        /\ \A k \in 1..(j - 1) : ~(/\ dispatched[k].ok
                                   /\ dispatched[k].frame_type = FRAME_TYPE_RESPONSE
                                   /\ dispatched[k].frame_code = StreamCode(c))}}

\* the response resolved the future of call c
ResolvedByResponse(c) == futures[c].state \in {"result", "exception"}

\* C37: the response that resolves a waiter resolves it as an error only when
\* its parameters hold a one-byte status TLV that is not 0; when they hold no
\* status TLV, or only status TLVs whose length is not 1, it resolves the
\* waiter with the parsed map as the result.
C37_ErrorOnlyOnOneByteStatus ==
    \A c \in Calls : \A f \in FirstRouted(c) :
        ResolvedByResponse(c) =>
            /\ futures[c].state = "exception" =>
                   /\ OneByteErrorStatus(f.parameters)
                   /\ futures[c].exception.type = "CommandError"
            /\ NoOneByteStatus(f.parameters) =>
                   futures[c] = SetResult(PyDict(parse_tlv_sequence(f.parameters).tlvs))

\* the call got the map of a response whose status TLV has two bytes
C37_Witness ==
    /\ call[1].pc = "done"
    /\ call[1].outcome = Return(PyDict(TAG_STATUS :> PyBytes(<<0, 20>>)))
    /\ peer_frames[1].parameters = <<TAG_STATUS, 2, 0, 20>>

\* the parameters of the frame do not parse
Unparsed(f) == ~f.ok

\* C38: a read that routes no parsed response with the code of a pending call
\* leaves the future of the call pending and in the map, also when it extracted
\* a response with that code whose parameters do not parse; every frame the
\* peer sent is extracted, and a parsed response behind the unparsed one
\* resolves its waiter; a call that ends without a parsed response with its
\* code ends with TimeoutError.
C38_UnparsedResponseConsumed ==
    /\ [][\A c \in Calls :
            (Pending(c) /\ \A i \in (Len(dispatched) + 1)..Len(dispatched') :
                              ~(/\ dispatched'[i].ok
                                /\ dispatched'[i].frame_type = FRAME_TYPE_RESPONSE
                                /\ dispatched'[i].frame_code = call[c].command_code))
            /\ call'[c].pc = "waiting" /\ call[c].pc = "waiting" /\ elapsed' = elapsed
            => Pending(c)']_vars
    /\ [](stream = <<>> /\ rx_pc = "idle" =>
            /\ Len(dispatched) = Len(peer_frames)
            /\ rx_buffer = <<>>
            /\ \A c \in Calls :
                   FirstRouted(c) # {} /\ c \notin elapsed => ResolvedByResponse(c))
    /\ [](\A c \in Calls :
            call[c].pc = "done" /\ FirstRouted(c) = {}
            => call[c].outcome = Raise(Exc("TimeoutError", -1, "No response received")))

\* one chunk held a response to the first call that does not parse and a
\* response to the second call: the first call timed out, the second returned
C38_Witness ==
    /\ Len(chunks) = 1
    /\ Len(dispatched) = 2
    /\ Unparsed(dispatched[1])
    /\ dispatched[1].frame_code = CMD_GET_VERSION
    /\ call[1].pc = "done"
    /\ call[1].outcome = Raise(Exc("TimeoutError", -1, "No response received"))
    /\ call[2].pc = "done"
    /\ call[2].outcome.kind = "return"

(***************************************************************************)
(* uhf_rfid/core/dispatcher.py: the response and the command it answers.   *)
(*                                                                         *)
(* The peer answers the commands it was sent in the order they were sent,  *)
(* each after any delay: peer_frames[k] is its answer to sent[k].          *)
(***************************************************************************)
\* the frame code of a frame on the wire
CodeOf(frame) == frame[6]

\* the peer answers the earliest command it has not answered yet, with the
\* given status; the transport reads the answer and hands it to the dispatcher
peer_answers(status_code) ==
    /\ rx_pc = "idle"
    /\ Len(peer_frames) < Len(sent)
    /\ LET x == [frame_type |-> FRAME_TYPE_RESPONSE, address |-> 0,
                 frame_code |-> CodeOf(sent[Len(peer_frames) + 1]),
                 parameters |-> StatusTlv(status_code), bad |-> FALSE]
       IN /\ peer_frames' = Append(peer_frames, x)
          /\ Recorded(process_buffer(rx_buffer \o OnWire(x), pending_responses, futures,
                                     notification_callbacks, <<>>))
    /\ UNCHANGED <<connected, sent, write_error, notification_callbacks, call, elapsed,
                   stream, buffer, returned, chunks, peripheral>>

AnswersNext ==
    \/ connect
    \/ \E c \in Calls, code \in CmdCodes : send_command_wait_response(c, code, 0, <<>>)
    \/ \E c \in Calls : send_done(c)
    \/ \E c \in Calls : resume(c)
    \/ \E c \in Calls : timeout_fire(c)
    \/ \E c \in Calls : timeout_handle(c)
    \/ \E status_code \in {STATUS_SUCCESS, STATUS_PARAMETER_UNSUPPORTED} :
           peer_answers(status_code)

SpecAnswers == Init /\ [][AnswersNext]_vars

\* the place of the command of call c among the commands sent
SentIndex(c) == Cardinality({d \in 1..c : call[d].full_frame # <<>>})

\* this step is the arrival of a response that completes the future of call c
ResolvedNow(c) ==
    /\ peer_frames' # peer_frames
    /\ ~Done(futures[c])
    /\ Done(futures'[c])

\* C39, as stated: a response completes only the future of the command it
\* answers; the answer to a command that timed out or was superseded completes
\* no future of a later command with the same code.
C39_ResponseOnlyToItsCommand ==
    [][\A c \in Calls : ResolvedNow(c) => Len(peer_frames') = SentIndex(c)]_vars

\* what the code does: the response completes the future that is pending for
\* its code, whichever command it answers, and no other
C39_ResponseToPendingOfCode ==
    [][\A c \in Calls :
          peer_frames' # peer_frames =>
              LET frame_code == peer_frames'[Len(peer_frames')].frame_code
              IN IF /\ frame_code \in DOMAIN pending_responses
                    /\ pending_responses[frame_code] = c
                    /\ ~Done(futures[c])
                 THEN Done(futures'[c]) /\ futures'[c].state \in {"result", "exception"}
                 ELSE futures'[c] = futures[c]]_vars

\* the answer to the first command completed the future of the second call,
\* after the first call had timed out
C39_LateAnswerTaken ==
    /\ Len(peer_frames) = 1
    /\ call[1].outcome = Raise(Exc("TimeoutError", -1, "No response received"))
    /\ futures[2].state \in {"result", "exception"}

(***************************************************************************)
(* uhf_rfid/core/dispatcher.py: a future is completed once.                *)
(***************************************************************************)
\* the outcome the awaiter of call c observed is the one its future holds
ObservedOnce(c) ==
    LET outcome == call[c].outcome IN
    IF outcome.kind = "return" THEN futures[c] = SetResult(outcome.value)
    ELSE /\ outcome.kind = "raise"
         /\ outcome.exc.type \in {"CommandError", "TimeoutError", "CancelledError",
                                  "WriteError"}
         /\ outcome.exc.type = "CommandError" => futures[c] = SetException(outcome.exc)
         /\ outcome.exc.type = "TimeoutError" =>
                \/ outcome.exc = SupersededError /\ futures[c] = SetException(outcome.exc)
                \/ outcome = TimeoutRaised /\ futures[c].state = "cancelled"
         /\ outcome.exc.type = "WriteError" => Done(futures[c])

\* C40: a future that is done is never set again, whatever step follows (a
\* response, a timeout, a later call for its code, cleanup); a call that ended
\* keeps its outcome, and the outcome of a call whose command was sent is the
\* result, the command error, the timeout or superseded error, or the
\* cancellation that its future holds.
C40_CompletedAtMostOnce ==
    /\ [][\A c \in Calls :
            /\ Done(futures[c]) => futures'[c] = futures[c]
            /\ call[c].pc = "done" => call'[c] = call[c]]_vars
    /\ [](\A c \in Calls :
            call[c].pc = "done" /\ call[c].full_frame # <<>> => ObservedOnce(c))

\* two responses arrived for the first call, which returned the first; the
\* second call was superseded or timed out or cancelled, and observed it
C40_Witness ==
    /\ call[1].pc = "done"
    /\ call[1].outcome.kind = "return"
    /\ nresp[1] = 2
    /\ call[2].pc = "done"
    /\ call[2].outcome.kind = "raise"
    /\ futures[2].state = "cancelled"

=============================================================================
